---- MODULE Spec2Model ----
(***************************************************************************)
(* Unicorn evaluation engine: Top-50 selection, score spacing and the      *)
(* run_for_date pipeline over the result store.                            *)
(*                                                                         *)
(* Scores and metric values are fixed-point numbers in thousandths         *)
(* (100.0 is 100000); a product of two of them is floored back to          *)
(* thousandths, which stands for the rounding of the double arithmetic.    *)
(***************************************************************************)
EXTENDS Integers, Sequences, FiniteSets, TLC

VARIABLES
    rows,            \* _select_top50: the candidate stream being scanned
    pos,             \* _select_top50: number of rows the loop has consumed
    sel,             \* _select_top50: locals (top, seen_entities, pattern_counts, halted)
    recent_top50,    \* _select_top50: entity -> rows in the lookback snapshots
    recent_top10,    \* _select_top50: entity -> rows of rank <= 10 in them
    spacing_in,      \* apply_min_score_spacing: the list handed in
    spacing_out,     \* apply_min_score_spacing: the list after the call (<<>> before)
    spacing_pc,      \* apply_min_score_spacing: "idle", "called" or "returned"
    templates,       \* table pattern_templates: pattern_id -> row
    db,              \* committed tables unicorn_results and unicorn_top50_daily
    session,         \* the tables as the open session's transaction sees them
    pc,              \* run_for_date: "idle", "loop", "generate", "insert", "commit"
    run_date,        \* run_for_date: its argument
    todo,            \* run_for_date: enabled patterns the loop has not reached yet
    evaluated,       \* patterns this run handed to evaluate_pattern, which returned
    returned,        \* the rows evaluate_pattern scored (and returned) in this run
    skipped,         \* patterns this run skipped after validate_pattern raised
    raised,          \* patterns whose evaluate_pattern raised in this run
    outcome,         \* how the last run ended: "none", "running", "ok", "raised", "aborted"
    top,             \* generate_top50: the selected list
    deleted,         \* generate_top50: number of rows its DELETE removed
    ended_at,        \* the step at which the last run ended
    runs,            \* number of run_for_date invocations so far
    score_pattern,   \* compute_scores: its argument pattern
    score_rows,      \* compute_scores: its argument rows, as the query delivered them
    score_out,       \* compute_scores: the list it returned (<<>> before)
    score_pc,        \* compute_scores: "idle", "called", "returned" or "raised"
    render,          \* _render_description as _select_top50 calls it: the joined
                     \* row (row), the text returned (description), and pc
    filter           \* build_filter_clause: filters_json, the returned where_sql
                     \* and params, and pc

selVars == <<rows, pos, sel, recent_top50, recent_top10>>
spacingVars == <<spacing_in, spacing_out, spacing_pc>>
scoreVars == <<score_pattern, score_rows, score_out, score_pc>>
callVars == <<scoreVars, render, filter>>
runVars ==
    <<templates, db, session, pc, run_date, todo, evaluated, returned, skipped, raised,
      outcome, top, deleted, ended_at, runs>>

vars ==
    <<rows, pos, sel, recent_top50, recent_top10, spacing_in, spacing_out, spacing_pc,
      templates, db, session, pc, run_date, todo, evaluated, returned, skipped, raised,
      outcome, top, deleted, ended_at, runs,
      score_pattern, score_rows, score_out, score_pc, render, filter>>

(***************************************************************************)
(* Program constants (engine.py).                                          *)
(***************************************************************************)
MAX_PER_PATTERN_PER_DAY == 5
TOP50_LOOKBACK_DAYS == 7
TOP50_MAX_APPEARANCES_LOOKBACK == 3
TOP10_MAX_APPEARANCES_LOOKBACK == 2
TOP50_SIZE == 50
TOP10_RANK == 10
\* MIN_REL_GAP = 0.011 as a fraction MIN_REL_GAP_NUM / GAP_DEN
MIN_REL_GAP_NUM == 11
GAP_DEN == 1000

(***************************************************************************)
(* Bounds of the model.                                                    *)
(***************************************************************************)
MaxEntity == 3        \* entity ids of the exhaustively enumerated streams
MaxStreamLen == 3     \* length of the exhaustively enumerated streams
MaxBigPatterns == 11  \* patterns of the generated long streams
BigExtra == 1         \* generated streams hold up to cap + BigExtra rows per pattern
MaxSpacingLen == 4    \* length of the lists handed to apply_min_score_spacing alone
MaxRunDate == 2       \* run dates of the run_for_date specification
MaxRuns == 2          \* run_for_date invocations of the run_for_date specification

PATTERN_IDS ==
    <<"PAT-A", "PAT-B", "PAT-C", "PAT-D", "PAT-E", "PAT-F", "PAT-G",
      "PAT-H", "PAT-I", "PAT-J", "PAT-K", "PAT-L", "PAT-M", "PAT-N">>

SmallPatterns == {PATTERN_IDS[1], PATTERN_IDS[2]}

RunDates == 1..MaxRunDate

(***************************************************************************)
(* dict.get(key, 0) and defaultdict(int)[key]                              *)
(***************************************************************************)
Get(map, key) == IF key \in DOMAIN map THEN map[key] ELSE 0

Put(map, key, val) ==
    [k \in (DOMAIN map) \cup {key} |-> IF k = key THEN val ELSE map[k]]

EmptyMap == [k \in {} |-> 0]

\* the value an assignment binds: Only({F(x) : x \in {e}}) computes e once
\* and then F of its value, as `x = e` followed by the uses of x does
Only(S) == CHOOSE x \in S : TRUE

(***************************************************************************)
(* _select_top50: one iteration of `for row in rows`.  st holds the        *)
(* function's locals; halted is the `break` at rank >= 50.                 *)
(***************************************************************************)
SelStart ==
    [top |-> <<>>, seen_entities |-> {}, pattern_counts |-> EmptyMap, halted |-> FALSE]

\* mutant: only the entry accepted last is compared
SeenBefore_LastOnly(st, row) ==
    /\ st.top # <<>>
    /\ st.top[Len(st.top)].entity_id = row.entity_id

SeenBefore(st, row) == row.entity_id \in st.seen_entities

\* mutant: > for >=
PatternCapReached_Strict(st, row) ==
    Get(st.pattern_counts, row.pattern_id) > MAX_PER_PATTERN_PER_DAY

PatternCapReached(st, row) ==
    Get(st.pattern_counts, row.pattern_id) >= MAX_PER_PATTERN_PER_DAY

\* mutant: > for >=
Top50CooldownHit_Strict(row, r50) ==
    Get(r50, row.entity_id) > TOP50_MAX_APPEARANCES_LOOKBACK

Top50CooldownHit(row, r50) ==
    Get(r50, row.entity_id) >= TOP50_MAX_APPEARANCES_LOOKBACK

\* mutant: the Top-10 ceiling applied at every rank
Top10CooldownHit_AnyRank(st, row, r10) ==
    Get(r10, row.entity_id) >= TOP10_MAX_APPEARANCES_LOOKBACK

Top10CooldownHit(st, row, r10) ==
    /\ Len(st.top) + 1 <= TOP10_RANK
    /\ Get(r10, row.entity_id) >= TOP10_MAX_APPEARANCES_LOOKBACK

Rejected(st, row, r50, r10) ==
    \/ SeenBefore(st, row)
    \/ PatternCapReached(st, row)
    \/ Top50CooldownHit(row, r50)
    \/ Top10CooldownHit(st, row, r10)

NewEntry(st, row, rd) ==
    [run_date |-> rd,
     rank |-> Len(st.top) + 1,
     entity_id |-> row.entity_id,
     pattern_id |-> row.pattern_id,
     metric_value |-> row.metric_value,
     sample_size |-> row.sample_size,
     score |-> row.score]

\* mutant: > for >=
BreakAt_Strict(rank) == rank > TOP50_SIZE

BreakAt(rank) == rank >= TOP50_SIZE

SelectStep(st, row, rd, r50, r10) ==
    IF st.halted \/ Rejected(st, row, r50, r10)
    THEN st
    ELSE [top |-> Append(st.top, NewEntry(st, row, rd)),
          seen_entities |-> st.seen_entities \cup {row.entity_id},
          pattern_counts |-> Put(st.pattern_counts, row.pattern_id,
                                 Get(st.pattern_counts, row.pattern_id) + 1),
          halted |-> BreakAt(Len(st.top) + 1)]

RECURSIVE SelectFrom(_, _, _, _, _, _)
SelectFrom(st, rs, i, rd, r50, r10) ==
    IF i > Len(rs) \/ st.halted
    THEN st
    ELSE Only({SelectFrom(nxt, rs, i + 1, rd, r50, r10) :
                   nxt \in {SelectStep(st, rs[i], rd, r50, r10)}})

_select_top50(rs, rd, r50, r10) ==
    SelectFrom(SelStart, rs, 1, rd, r50, r10).top

(***************************************************************************)
(* apply_min_score_spacing                                                 *)
(***************************************************************************)
Max0(x) == IF x > 0 THEN x ELSE 0

\* mutant: an absolute gap instead of a relative one
MaxAllowed_Absolute(prev) == prev - MIN_REL_GAP_NUM

MaxAllowed(prev) == (prev * (GAP_DEN - MIN_REL_GAP_NUM)) \div GAP_DEN

SpacedScore(prev_score, cur_score) ==
    LET prev == Max0(prev_score)
        cur == Max0(cur_score)
        max_allowed == MaxAllowed(prev)
    IN  Max0(IF cur > max_allowed THEN max_allowed ELSE cur)

RECURSIVE SpaceFrom(_, _)
SpaceFrom(rs, i) ==
    IF i > Len(rs)
    THEN rs
    ELSE Only({SpaceFrom(spaced, i + 1) :
                   spaced \in {[rs EXCEPT ![i].score =
                                    SpacedScore(rs[i - 1].score, rs[i].score)]}})

apply_min_score_spacing(rs) ==
    IF rs = <<>>
    THEN rs
    ELSE SpaceFrom([rs EXCEPT ![1].score = Max0(rs[1].score)], 2)

(***************************************************************************)
(* scoring.py.  Numbers are thousandths (SCALE); FMul is the fixed-point   *)
(* product.  A nullable numeric column holds 0 for NULL: the code reads   *)
(* each of them through `x or default`.                                    *)
(***************************************************************************)
SCALE == 1000

FMul(a, b) == (a * b) \div SCALE

RECURSIVE ISqrtIn(_, _, _)
ISqrtIn(x, lo, hi) ==
    IF lo >= hi
    THEN lo
    ELSE LET mid == (lo + hi + 1) \div 2
         IN  IF mid * mid <= x THEN ISqrtIn(x, mid, hi) ELSE ISqrtIn(x, lo, mid - 1)

\* floor of the square root
ISqrt(x) == IF x <= 0 THEN 0 ELSE ISqrtIn(x, 0, IF x < 46340 THEN x ELSE 46340)

RECURSIVE SumSeq(_, _)
SumSeq(xs, i) == IF i > Len(xs) THEN 0 ELSE xs[i] + SumSeq(xs, i + 1)

\* values a result column can hold when it reaches compute_scores
Num(v) == [k |-> "num", v |-> v]
NoneVal == [k |-> "none", v |-> 0]
NaNVal == [k |-> "nan", v |-> 0]
TextVal == [k |-> "text", v |-> 0]
InfVal == [k |-> "inf", v |-> 0]

\* float('inf') among the thousandths: above every metric value
PosInf == 2 * SCALE * SCALE * SCALE

\* lines 60-75: rows whose metric_value is None, not a number or NaN are
\* skipped (an infinite value passes float() and isnan()); a sample_size
\* that int() rejects becomes 0, a negative one is kept as it is
MetricKept(r) == r.metric_value.k \in {"num", "inf"}

CleanRow(r) ==
    [entity_id |-> r.entity_id,
     metric_value |-> IF r.metric_value.k = "inf" THEN PosInf ELSE r.metric_value.v,
     sample_size |-> IF r.sample_size.k = "num" THEN r.sample_size.v ELSE 0]

RECURSIVE CleanRows(_, _)
CleanRows(rs, i) ==
    IF i > Len(rs)
    THEN <<>>
    ELSE IF MetricKept(rs[i])
         THEN <<CleanRow(rs[i])>> \o CleanRows(rs, i + 1)
         ELSE CleanRows(rs, i + 1)

Descending(pattern) == pattern.order_direction \in {"", "desc", "DESC", "Desc"}

\* mutant: equal values share a position
RankIdx_TiesShare(values, i, descending) ==
    Cardinality({j \in 1..Len(values) :
                    IF descending THEN values[j] > values[i] ELSE values[j] < values[i]})

\* mutant: reverse=True also reverses the input order of equal values
RankIdx_ReverseTies(values, i, descending) ==
    Cardinality({j \in 1..Len(values) :
                    IF descending THEN values[j] > values[i] ELSE values[j] < values[i]})
    + Cardinality({j \in 1..Len(values) :
                      /\ values[j] = values[i]
                      /\ IF descending THEN j > i ELSE j < i})

\* position (0-based) of values[i] after the stable list.sort(key=value, reverse=descending)
RankIdx(values, i, descending) ==
    Cardinality({j \in 1..Len(values) :
                    IF descending THEN values[j] > values[i] ELSE values[j] < values[i]})
    + Cardinality({j \in 1..(i - 1) : values[j] = values[i]})

RECURSIVE RankSpreadFrom(_, _, _, _)
RankSpreadFrom(values, i, descending, denom) ==
    IF i > Len(values)
    THEN <<>>
    ELSE <<(2 * SCALE * (denom - RankIdx(values, i, descending))) \div denom>>
             \o RankSpreadFrom(values, i + 1, descending, denom)

_rank_spread_z(values, descending) ==
    LET n == Len(values)
    IN  IF n = 1
        THEN <<2 * SCALE>>
        ELSE RankSpreadFrom(values, 1, descending, IF n - 1 > 1 THEN n - 1 ELSE 1)

\* n * value - sum(values) is n times the deviation from the mean
Deviation(values, i) == Len(values) * values[i] - SumSeq(values, 1)

SumSqDev(values) ==
    SumSeq([i \in 1..Len(values) |-> Deviation(values, i) * Deviation(values, i)], 1)

\* statistics.stdev (sample standard deviation) times n, so that the quotient
\* keeps its digits; StatisticsError below two values
NStdVal(values) ==
    LET n == Len(values)
    IN  IF n < 2 THEN 0 ELSE ISqrt(SumSqDev(values) \div (n - 1))

HasInf(values) == \E i \in 1..Len(values) : values[i] = PosInf

\* lines 84-89: only StatisticsError (fewer than two values) is caught.  On
\* an infinite value statistics.stdev either raises AttributeError (CPython
\* 3.11) or returns NaN (earlier versions), as the interpreter has it.
StatisticsRaises(values) ==
    IF Len(values) >= 2 /\ HasInf(values) THEN {"AttributeError", ""} ELSE {""}

\* std_val <= 1e-9 (false for a NaN deviation): values are thousandths, so
\* any two different values put the deviation above 1e-9, and equal values
\* put it at 0
StdNegligible(values) ==
    Len(values) < 2 \/ (~HasInf(values) /\ SumSqDev(values) = 0)

UseRankSpread(values) == StdNegligible(values) \/ Len(values) < 5

\* (val - mean) / std, or (mean - val) / std for an ascending pattern;
\* nstd is NStdVal(values), above 0 on this branch
ZScore(values, i, descending, nstd) ==
    LET dev == IF descending THEN Deviation(values, i) ELSE 0 - Deviation(values, i)
    IN  (dev * SCALE) \div nstd

RECURSIVE ZScoresFrom(_, _, _, _)
ZScoresFrom(values, i, descending, nstd) ==
    IF i > Len(values)
    THEN <<>>
    ELSE <<ZScore(values, i, descending, nstd)>>
             \o ZScoresFrom(values, i + 1, descending, nstd)

ZValues(values, descending) ==
    IF UseRankSpread(values)
    THEN _rank_spread_z(values, descending)
    ELSE Only({ZScoresFrom(values, 1, descending, IF nstd > 0 THEN nstd ELSE 1) :
                  nstd \in {NStdVal(values)}})

\* line 108: the division fails on sample_size = -target_sample, math.sqrt
\* on a negative quotient
SampleWeightRaises(sample_size, target_sample) ==
    IF target_sample > 0 /\ sample_size + target_sample = 0
    THEN "ZeroDivisionError"
    ELSE IF target_sample > 0 /\ sample_size < 0 /\ sample_size + target_sample > 0
         THEN "ValueError"
         ELSE ""

\* math.sqrt(sample_size / (sample_size + target_sample))
SampleWeight(sample_size, target_sample) ==
    IF target_sample > 0
    THEN IF sample_size + target_sample > 0
         THEN ISqrt((sample_size * SCALE * SCALE) \div (sample_size + target_sample))
         ELSE ISqrt(((0 - sample_size) * SCALE * SCALE)
                        \div (0 - (sample_size + target_sample)))
    ELSE SCALE

\* metrics.py public_weight_for_category: tier1 1.2, tier2 1.0, tier3 0.8
public_weight_for_category(category) ==
    IF category = ""
    THEN 1000
    ELSE IF category \in {"A_BARRELS", "COUNT", "STARTER", "RELIEVER", "FATIGUE", "PARK"}
         THEN 1200
         ELSE IF category = "B_DIRECTION" THEN 1000 ELSE 800

UnicornWeight(pattern) ==
    IF pattern.unicorn_weight = 0 THEN SCALE ELSE pattern.unicorn_weight

PublicWeight(pattern) ==
    IF pattern.public_weight = 0
    THEN public_weight_for_category(pattern.category)
    ELSE pattern.public_weight

\* engine.py _market_weight_lookup: weights.get(player_id, 1.0)
MarketWeight(weights, e) == IF e \in DOMAIN weights THEN weights[e] ELSE SCALE

ScoreRow(pattern, cleaned, zs, i, weights) ==
    LET sample_weight == SampleWeight(cleaned[i].sample_size, pattern.target_sample)
        z_adjusted == FMul(zs[i], sample_weight)
    IN  [entity_id |-> cleaned[i].entity_id,
         metric_value |-> cleaned[i].metric_value,
         sample_size |-> cleaned[i].sample_size,
         z_raw |-> zs[i],
         z_adjusted |-> z_adjusted,
         score |-> FMul(FMul(FMul(z_adjusted, UnicornWeight(pattern)), PublicWeight(pattern)),
                        MarketWeight(weights, cleaned[i].entity_id)),
         rank |-> 0]

\* the sort key (-score, -sample_size, direction * metric_value, entity_id)
SortKey(r, descending) ==
    <<0 - r.score, 0 - r.sample_size,
      IF descending THEN 0 - r.metric_value ELSE r.metric_value, r.entity_id>>

RECURSIVE KeyLess(_, _, _)
KeyLess(a, b, i) ==
    IF i > Len(a)
    THEN FALSE
    ELSE IF a[i] # b[i] THEN a[i] < b[i] ELSE KeyLess(a, b, i + 1)

\* place (1-based) of scored[i] after the stable scored.sort(key=SortKey)
SortedPlace(scored, i, descending) ==
    1 + Cardinality({j \in 1..Len(scored) :
                        KeyLess(SortKey(scored[j], descending), SortKey(scored[i], descending), 1)})
      + Cardinality({j \in 1..(i - 1) :
                        SortKey(scored[j], descending) = SortKey(scored[i], descending)})

RECURSIVE SortedPlaces(_, _, _)
SortedPlaces(scored, i, descending) ==
    IF i > Len(scored)
    THEN <<>>
    ELSE <<SortedPlace(scored, i, descending)>> \o SortedPlaces(scored, i + 1, descending)

RECURSIVE SortedFrom(_, _, _)
SortedFrom(scored, places, k) ==
    IF k > Len(scored)
    THEN <<>>
    ELSE <<scored[CHOOSE i \in 1..Len(scored) : places[i] = k]>>
             \o SortedFrom(scored, places, k + 1)

SortScored(scored, descending) ==
    Only({SortedFrom(scored, places, 1) : places \in {SortedPlaces(scored, 1, descending)}})

\* lines 137-145: at least a 1% drop between adjacent scores
PlateauRow(prev_row, cur_row) ==
    LET prev == prev_row.score
        cur == cur_row.score
        new_score == (prev * 99) \div 100
    IN  IF prev > 0 /\ (prev - cur) * 100 < prev
        THEN [cur_row EXCEPT
                !.z_adjusted = IF cur # 0 THEN (cur_row.z_adjusted * new_score) \div cur
                               ELSE cur_row.z_adjusted,
                !.score = new_score]
        ELSE cur_row

\* the loop from idx = i on; prev_row is scored[i - 1] as the loop left it
RECURSIVE PlateauFrom(_, _, _)
PlateauFrom(scored, i, prev_row) ==
    IF i > Len(scored)
    THEN <<>>
    ELSE Only({<<cur_row>> \o PlateauFrom(scored, i + 1, cur_row) :
                   cur_row \in {PlateauRow(prev_row, scored[i])}})

Plateau(scored) == <<scored[1]>> \o PlateauFrom(scored, 2, scored[1])

AssignRanks(scored) == [i \in 1..Len(scored) |-> [scored[i] EXCEPT !.rank = i]]

RECURSIVE MetricValues(_, _)
MetricValues(cleaned, i) ==
    IF i > Len(cleaned)
    THEN <<>>
    ELSE <<cleaned[i].metric_value>> \o MetricValues(cleaned, i + 1)

RECURSIVE ScoreRows(_, _, _, _, _)
ScoreRows(pattern, cleaned, zs, i, weights) ==
    IF i > Len(cleaned)
    THEN <<>>
    ELSE <<ScoreRow(pattern, cleaned, zs, i, weights)>>
             \o ScoreRows(pattern, cleaned, zs, i + 1, weights)

\* lines 127-148: sort, plateau rule, ranks
RankScored(pattern, scored) ==
    Only({AssignRanks(Plateau(sorted)) :
             sorted \in {SortScored(scored, Descending(pattern))}})

\* lines 98-125: one ScoredRow per cleaned row
ScoreWithZ(pattern, cleaned, zs, weights) ==
    Only({RankScored(pattern, scored) :
             scored \in {ScoreRows(pattern, cleaned, zs, 1, weights)}})

\* lines 80-96: the z values of the cleaned rows
ScoreCleaned(pattern, cleaned, weights) ==
    IF cleaned = <<>>
    THEN <<>>
    ELSE Only({ScoreWithZ(pattern, cleaned, zs, weights) :
                  zs \in {Only({ZValues(values, Descending(pattern)) :
                                  values \in {MetricValues(cleaned, 1)}})}})

compute_scores(pattern, rs, weights) ==
    Only({ScoreCleaned(pattern, cleaned, weights) : cleaned \in {CleanRows(rs, 1)}})

\* the first row of the loop at lines 104-125 whose sample weight fails
RECURSIVE FirstWeightError(_, _, _)
FirstWeightError(cleaned, i, target_sample) ==
    IF i > Len(cleaned)
    THEN ""
    ELSE IF SampleWeightRaises(cleaned[i].sample_size, target_sample) # ""
         THEN SampleWeightRaises(cleaned[i].sample_size, target_sample)
         ELSE FirstWeightError(cleaned, i + 1, target_sample)

\* the exceptions compute_scores can end with on these rows ("" is a return)
compute_scores_raises(pattern, rs) ==
    LET cleaned == CleanRows(rs, 1)
    IN  IF cleaned = <<>>
        THEN {""}
        ELSE {IF e # "" THEN e ELSE FirstWeightError(cleaned, 1, pattern.target_sample) :
                 e \in StatisticsRaises(MetricValues(cleaned, 1))}

(***************************************************************************)
(* engine.py _render_description.  A text is the sequence of its pieces:   *)
(* literal text, a placeholder {{key}}, a number printed with three        *)
(* decimals, a number printed as an integer.  None is the empty text.      *)
(***************************************************************************)
Lit(x) == [k |-> "lit", s |-> x, n |-> 0]
Hole(key) == [k |-> "hole", s |-> key, n |-> 0]
\* f"{metric_value:.3f}" of a value in thousandths
Fixed3(v) == [k |-> "fixed3", s |-> "", n |-> v]
\* str(n) of an integer
IntText(v) == [k |-> "int", s |-> "", n |-> v]

\* description.replace("{{key}}", val): every occurrence, left to right
RECURSIVE Replace(_, _, _)
Replace(description, key, val) ==
    IF description = <<>>
    THEN <<>>
    ELSE (IF Head(description) = Hole(key) THEN val ELSE <<Head(description)>>)
            \o Replace(Tail(description), key, val)

\* lines 31-35: the keys of `replacements` in insertion order, sample_size
\* is not among them
_render_description(template, player_name, team_name, metric_value) ==
    IF template = <<>>
    THEN <<>>
    ELSE Replace(Replace(Replace(template, "player_name", player_name),
                         "team_name", team_name),
                 "metric_value", <<Fixed3(metric_value)>>)

(***************************************************************************)
(* JSON values of PatternTemplate.filters_json.                            *)
(***************************************************************************)
JNull == [t |-> "null"]
JStr(x) == [t |-> "str", s |-> x]
JNum(x) == [t |-> "num", n |-> x]
JList(xs) == [t |-> "list", items |-> xs]
\* a dict is its items in insertion order, each [key, value]
JDict(kvs) == [t |-> "dict", items |-> kvs]
KV(k, v) == [key |-> k, value |-> v]

\* Python truthiness: `not x`
Falsy(j) ==
    \/ j.t = "null"
    \/ j.t \in {"dict", "list"} /\ j.items = <<>>
    \/ j.t = "str" /\ j.s = ""
    \/ j.t = "num" /\ j.n = 0

\* dict.get(key): JNull when absent (or when j is no dict)
JGet(j, k) ==
    IF j.t = "dict" /\ \E i \in 1..Len(j.items) : j.items[i].key = k
    THEN j.items[CHOOSE i \in 1..Len(j.items) : j.items[i].key = k].value
    ELSE JNull

(***************************************************************************)
(* filters.py: build_filter_clause.  The SQL text is the sequence of its   *)
(* tokens: text that the code writes into the statement, and references    *)
(* :p_<n> to bound parameters.  params maps n to the value bound to p_<n>. *)
(***************************************************************************)
SUPPORTED_OPS == {"=", "!=", ">", "<", ">=", "<=", "IN", "NOT IN", "IS NULL", "IS NOT NULL"}

Sql(x) == [k |-> "sql", s |-> x, n |-> 0]
\* f":{param_name}" with param_name = _next_param(counter)
ParamRef(counter) == [k |-> "param", s |-> "p_", n |-> counter]
\* tuple(...) of the items
JTuple(xs) == [t |-> "tuple", items |-> xs]

HasKey(j, k) == j.t = "dict" /\ \E i \in 1..Len(j.items) : j.items[i].key = k

\* str.upper() on the operator strings of the model
Upper(x) ==
    CASE x = "in" -> "IN"
      [] x = "not in" -> "NOT IN"
      [] x = "is null" -> "IS NULL"
      [] x = "is not null" -> "IS NOT NULL"
      [] x = "like" -> "LIKE"
      [] x = "None" -> "NONE"
      [] OTHER -> x

\* line 24: str(condition.get("op", "=")).upper()
OpOf(condition) ==
    LET op == IF HasKey(condition, "op") THEN JGet(condition, "op") ELSE JStr("=")
    IN  Upper(CASE op.t = "str" -> op.s
                [] op.t = "null" -> "None"
                [] OTHER -> "?")

\* what the statement would hold if a value were written into its text
RECURSIVE TextOf(_)
TextOf(value) ==
    CASE value.t = "str" -> <<Sql(value.s)>>
      [] value.t = "num" -> <<[k |-> "sql", s |-> "", n |-> value.n]>>
      [] value.t = "list" ->
            IF value.items = <<>>
            THEN <<>>
            ELSE TextOf(Head(value.items)) \o TextOf(JList(Tail(value.items)))
      [] OTHER -> <<>>

\* mutant: the value is written into the clause
ClauseFor_Interpolated(field, op, counter, value) ==
    <<Sql(field), Sql(op)>> \o TextOf(value)

\* lines 47 and 50: f"{field} {op} :{param_name}"
ClauseFor(field, op, counter, value) == <<Sql(field), Sql(op), ParamRef(counter)>>

\* lines 46 and 49: the value bound to the parameter
BoundValue(op, value) ==
    IF op \in {"IN", "NOT IN"}
    THEN JTuple(IF value.t = "list" THEN value.items ELSE <<value>>)
    ELSE value

\* mutant: the clause is put in front of the earlier ones
AddClause_Prepend(clauses, clause) == <<clause>> \o clauses

\* clauses.append(...)
AddClause(clauses, clause) == Append(clauses, clause)

\* lines 22-50: one pass of the loop over the locals clauses, params, counter
FilterStep(st, condition) ==
    LET field == JGet(condition, "field")
        op == OpOf(condition)
        value == JGet(condition, "value")
    IN  IF Falsy(field) \/ op \notin SUPPORTED_OPS
        THEN st
        ELSE IF op \in {"IS NULL", "IS NOT NULL"}
        THEN [st EXCEPT !.clauses = AddClause(@, <<Sql(field.s), Sql(op)>>)]
        ELSE IF value = JNull /\ op = "="
        THEN [st EXCEPT !.clauses = AddClause(@, <<Sql(field.s), Sql("IS NULL")>>)]
        ELSE IF value = JNull /\ op = "!="
        THEN [st EXCEPT !.clauses = AddClause(@, <<Sql(field.s), Sql("IS NOT NULL")>>)]
        ELSE [clauses |-> AddClause(st.clauses,
                                    ClauseFor(field.s, op, st.counter, value)),
              params |-> Put(st.params, st.counter, BoundValue(op, value)),
              counter |-> st.counter + 1]

RECURSIVE FilterLoop(_, _, _)
FilterLoop(st, conditions, i) ==
    IF i > Len(conditions)
    THEN st
    ELSE FilterLoop(FilterStep(st, conditions[i]), conditions, i + 1)

\* " AND " + " AND ".join(clauses)
RECURSIVE JoinClauses(_)
JoinClauses(clauses) ==
    IF clauses = <<>>
    THEN <<>>
    ELSE <<Sql("AND")>> \o Head(clauses) \o JoinClauses(Tail(clauses))

\* filters_json.get("conditions", [])
ConditionsOf(filters_json) ==
    IF HasKey(filters_json, "conditions") THEN JGet(filters_json, "conditions").items ELSE <<>>

\* the locals at the return, with the returned where_sql and params
build_filter_clause(filters_json) ==
    IF Falsy(filters_json)
    THEN [clauses |-> <<>>, where_sql |-> <<>>, params |-> EmptyMap]
    ELSE LET st == FilterLoop([clauses |-> <<>>, params |-> EmptyMap, counter |-> 0],
                              ConditionsOf(filters_json), 1)
         IN  IF st.clauses = <<>>
             THEN [clauses |-> <<>>, where_sql |-> <<>>, params |-> EmptyMap]
             ELSE [clauses |-> st.clauses, where_sql |-> JoinClauses(st.clauses),
                   params |-> st.params]

(***************************************************************************)
(* patterns.py: validate_pattern.                                          *)
(***************************************************************************)
ALLOWED_COUNTS == {"3-0", "0-2", "3-2"}

BANNED_TERMS ==
    {"inning", "weather", "wind", "humidity", "temperature", "sequence",
     "after fouling", "after two", "late innings"}

\* `term in lower_val` for the strings the model's templates hold: the pairs
\* <<term, string>> with term a substring of string.lower()
SubstringPairs ==
    {<<"wind", "window">>, <<"wind", "wind_speed">>, <<"inning", "inning">>,
     <<"inning", "late innings">>, <<"late innings", "late innings">>,
     <<"weather", "Weather">>}

BannedString(x) == \E term \in BANNED_TERMS : <<term, x>> \in SubstringPairs

RECURSIVE _contains_banned_term(_)
_contains_banned_term(j) ==
    CASE j.t = "null" -> FALSE
      [] j.t = "dict" ->
            \E i \in 1..Len(j.items) :
                BannedString(j.items[i].key) \/ _contains_banned_term(j.items[i].value)
      [] j.t = "list" -> \E i \in 1..Len(j.items) : _contains_banned_term(j.items[i])
      [] j.t = "str" -> BannedString(j.s)
      [] OTHER -> FALSE

RECURSIVE _invalid_count(_)
_invalid_count(j) ==
    IF Falsy(j)
    THEN FALSE
    ELSE CASE j.t = "dict" ->
                \E i \in 1..Len(j.items) :
                    \/ /\ j.items[i].key = "count_str"
                       /\ j.items[i].value.t = "str"
                       /\ j.items[i].value.s \notin ALLOWED_COUNTS
                    \/ _invalid_count(j.items[i].value)
           [] j.t = "list" -> \E i \in 1..Len(j.items) : _invalid_count(j.items[i])
           [] OTHER -> FALSE

COMPLEXITY_CEILING == 4

\* mutant: the ceiling is one higher
TooComplex_Lenient(pattern) ==
    pattern.complexity_score # 0 /\ pattern.complexity_score > COMPLEXITY_CEILING + 1

TooComplex(pattern) ==
    pattern.complexity_score # 0 /\ pattern.complexity_score > COMPLEXITY_CEILING

\* the errors validate_pattern collects; count_value "" is NULL
ValidationErrors(pattern) ==
    (IF TooComplex(pattern) THEN {"complexity_score exceeds 4"} ELSE {})
    \cup (IF pattern.requires_count /\ pattern.count_value \notin ALLOWED_COUNTS
          THEN {"requires_count set but count_value is invalid"} ELSE {})
    \cup (IF pattern.count_value # "" /\ pattern.count_value \notin ALLOWED_COUNTS
          THEN {"count_value not in allowed set"} ELSE {})
    \cup (IF _contains_banned_term(pattern.filters_json)
          THEN {"filters_json contains banned concept"} ELSE {})
    \cup (IF _invalid_count(pattern.filters_json)
          THEN {"filters_json uses disallowed count"} ELSE {})

\* validate_pattern raises ValueError exactly when there are errors
validate_pattern_raises(pattern) == ValidationErrors(pattern) # {}

(***************************************************************************)
(* metrics.py get_metric_expr and sql_builder.py: what build_query raises. *)
(***************************************************************************)
METRIC_REGISTRY_KEYS ==
    {"count_hr", "hr_rate", "hard_hit_rate", "count_barrels", "avg_ev",
     "xwoba_avg", "whiff_rate", "contact_rate", "chase_rate"}

\* get_metric_expr raises KeyError; metric_expr "" is NULL
get_metric_expr_raises(metric, metric_expr) ==
    metric_expr = "" /\ metric \notin METRIC_REGISTRY_KEYS

WindowOf(pattern) ==
    JGet(IF pattern.filters_json.t = "dict" THEN pattern.filters_json ELSE JDict(<<>>),
         "window")

WindowType(pattern) ==
    LET w == WindowOf(pattern)
    IN  IF w.t = "dict" /\ JGet(w, "type").t = "str" THEN JGet(w, "type").s ELSE ""

\* mutant: the window is accepted for every entity type
_windowed_from_clause_raises_TableOnly(pattern) ==
    /\ WindowType(pattern) \in {"last_n_pa", "last_n_ab"}
    /\ pattern.base_table \notin {"pitch_facts", "pa_facts"}

\* _windowed_from_clause raises ValueError
_windowed_from_clause_raises(pattern) ==
    /\ WindowType(pattern) \in {"last_n_pa", "last_n_ab"}
    /\ \/ pattern.entity_type # "batter"
       \/ pattern.base_table \notin {"pitch_facts", "pa_facts"}

\* the exception build_query leaves with, "" when it returns
build_query_raises(pattern) ==
    IF get_metric_expr_raises(pattern.metric, pattern.metric_expr)
    THEN "KeyError"
    ELSE IF _windowed_from_clause_raises(pattern) THEN "ValueError" ELSE ""

(***************************************************************************)
(* The result store.  unicorn_results has the key (run_date, pattern_id,   *)
(* entity_id), unicorn_top50_daily the key (run_date, rank); a table is    *)
(* the set of its rows.                                                    *)
(***************************************************************************)
EmptyStore == [results |-> {}, top50 |-> {}]

SeqToSet(xs) == {xs[i] : i \in 1..Len(xs)}

\* _persist_results: delete the rows of (run_date, pattern), insert the new ones
ResultObject(d, pattern_id, pattern, row) ==
    [run_date |-> d, pattern_id |-> pattern_id, entity_type |-> pattern.entity_type,
     entity_id |-> row.entity_id, rank |-> row.rank, metric_value |-> row.metric_value,
     sample_size |-> row.sample_size, z_raw |-> row.z_raw, z_adjusted |-> row.z_adjusted,
     score |-> row.score]

\* mutant: the delete is not restricted to the pattern
DeleteResults_WholeDate(table, d, pattern_id) == {r \in table : r.run_date # d}

DeleteResults(table, d, pattern_id) ==
    {r \in table : ~(r.run_date = d /\ r.pattern_id = pattern_id)}

_persist_results(table, d, pattern_id, pattern, scored) ==
    DeleteResults(table, d, pattern_id)
        \cup {ResultObject(d, pattern_id, pattern, scored[i]) : i \in 1..Len(scored)}

\* evaluate_pattern lines 208-213: the rows it scores and returns, as result rows
ScoredObjects(d, pattern_id, pattern, qrows, weights) ==
    IF qrows = <<>>
    THEN {}
    ELSE {ResultObject(d, pattern_id, pattern, r) :
            r \in SeqToSet(compute_scores(pattern, qrows, weights))}

\* evaluate_pattern after the query returned qrows: nothing is written when
\* the query yields no row
evaluate_pattern(table, d, pattern_id, pattern, qrows, weights) ==
    IF qrows = <<>>
    THEN table
    ELSE _persist_results(table, d, pattern_id, pattern,
                          compute_scores(pattern, qrows, weights))

\* generate_top50 lines 105-117: the lookback rows and their counts
Historical(table, d) ==
    {r \in table : r.run_date >= d - TOP50_LOOKBACK_DAYS /\ r.run_date < d}

CountMap(hist) ==
    [e \in {r.entity_id : r \in hist} |-> Cardinality({r \in hist : r.entity_id = e})]

RecentTop50(table, d) == CountMap(Historical(table, d))

RecentTop10(table, d) == CountMap({r \in Historical(table, d) : r.rank <= TOP10_RANK})

\* lines 119-131: the results of the date that join a player and a pattern
\* template (every entity of the model has its players row)
\* mutant: only the best candidate of each pattern is read
JoinedResults_RankOne(results, tpl, d) ==
    {r \in results : r.run_date = d /\ r.pattern_id \in DOMAIN tpl /\ r.rank = 1}

JoinedResults(results, tpl, d) ==
    {r \in results : r.run_date = d /\ r.pattern_id \in DOMAIN tpl}

MaxScore(S) == CHOOSE x \in {r.score : r \in S} : \A r \in S : r.score <= x

\* ORDER BY score DESC: every order of the rows in which the scores do not
\* rise; rows of equal score come in any order
RECURSIVE ScoreDescOrders(_)
ScoreDescOrders(S) ==
    IF S = {}
    THEN {<<>>}
    ELSE UNION { { <<x>> \o rest : rest \in ScoreDescOrders(S \ {x}) }
                 : x \in UNION {{r \in S : r.score = m} : m \in {MaxScore(S)}} }

\* lines 133-134
SelectAndSpace(rs, d, r50, r10) ==
    apply_min_score_spacing(_select_top50(rs, d, r50, r10))

\* mutant: the old snapshot is not deleted
DeleteSnapshot_Nothing(table, d) == table

\* line 136
DeleteSnapshot(table, d) == {r \in table : r.run_date # d}

\* lines 137-138
InsertSnapshot(table, entries) == table \cup SeqToSet(entries)

\* db/session.py line 18, autocommit=False: a write of the session stays in
\* its transaction, the committed store is as it was
\* mutant: every write is committed at once
AfterWrite_Autocommit(committed, written) == written

AfterWrite(committed, written) == committed

\* the session's transaction ends without commit: its writes are gone
Rollback(committed, working) == committed

(***************************************************************************)
(* run_for_date, step by step.  The steps end where the transaction's      *)
(* state is visible to a failure: after each pattern, at the first commit, *)
(* after the snapshot's delete, after its insert, at the second commit.    *)
(***************************************************************************)
MARKET_WEIGHTS == EmptyMap

EnabledPatterns(tpl) == {p \in DOMAIN tpl : tpl[p].enabled}

RunStart(dates, limit) ==
    /\ pc = "idle"
    /\ runs < limit
    /\ runs' = runs + 1
    /\ \E d \in dates : run_date' = d
    /\ pc' = "loop"
    /\ todo' = EnabledPatterns(templates)
    /\ session' = db
    /\ evaluated' = {}
    /\ returned' = {}
    /\ skipped' = {}
    /\ raised' = {}
    /\ outcome' = "running"
    /\ top' = <<>>
    /\ deleted' = 0
    /\ UNCHANGED <<templates, db, ended_at, selVars, spacingVars, callVars>>

\* lines 225-229: validate_pattern raised ValueError
SkipInvalid ==
    /\ pc = "loop"
    /\ \E p \in todo :
          /\ validate_pattern_raises(templates[p])
          /\ todo' = todo \ {p}
          /\ skipped' = skipped \cup {p}
    /\ UNCHANGED <<templates, db, session, pc, run_date, evaluated, returned, raised,
                   outcome, top, deleted, ended_at, runs, selVars, spacingVars, callVars>>

\* line 230: evaluate_pattern returned; the fact store answered pattern p's
\* query for the date with one of answers[p, run_date]
Evaluate(answers) ==
    /\ pc = "loop"
    /\ \E p \in todo :
          /\ ~validate_pattern_raises(templates[p])
          /\ build_query_raises(templates[p]) = ""
          /\ \E qrows \in answers[p, run_date] :
                /\ session' = [session EXCEPT !.results =
                                  evaluate_pattern(session.results, run_date, p,
                                                   templates[p], qrows, MARKET_WEIGHTS)]
                /\ returned' = returned \cup
                                  ScoredObjects(run_date, p, templates[p], qrows,
                                                MARKET_WEIGHTS)
          /\ todo' = todo \ {p}
          /\ evaluated' = evaluated \cup {p}
    /\ db' = AfterWrite(db, session')
    /\ UNCHANGED <<templates, pc, run_date, skipped, raised, outcome, top,
                   deleted, ended_at, runs, selVars, spacingVars, callVars>>

\* an exception unwinds run_for_date: the session closes without commit and
\* the run's locals are gone
RunFails(result) ==
    /\ pc' = "idle"
    /\ outcome' = result
    /\ ended_at' = pc
    /\ session' = Rollback(db, session)
    /\ todo' = {}
    /\ evaluated' = {}
    /\ returned' = {}
    /\ skipped' = {}
    /\ top' = <<>>
    /\ deleted' = 0
    /\ UNCHANGED <<templates, db, run_date, runs, selVars, spacingVars, callVars>>

\* line 230: evaluate_pattern raised.  Only validate_pattern is inside the
\* try block, so nothing in run_for_date catches it.
EvaluateFailed(p) ==
    /\ RunFails("raised")
    /\ raised' = raised \cup {p}

\* build_query raised KeyError (get_metric_expr) or ValueError (window)
EvaluateRaisesInBuild ==
    /\ pc = "loop"
    /\ \E p \in todo :
          /\ ~validate_pattern_raises(templates[p])
          /\ build_query_raises(templates[p]) # ""
          /\ EvaluateFailed(p)

\* session.execute raised: the fact store failed the query
EvaluateRaisesInStore ==
    /\ pc = "loop"
    /\ \E p \in todo :
          /\ ~validate_pattern_raises(templates[p])
          /\ build_query_raises(templates[p]) = ""
          /\ EvaluateFailed(p)

\* line 232: session.commit() after the loop
CommitResults ==
    /\ pc = "loop"
    /\ todo = {}
    /\ db' = session
    /\ pc' = "generate"
    /\ UNCHANGED <<templates, session, run_date, todo, evaluated, returned, skipped, raised,
                   outcome, top, deleted, ended_at, runs, selVars, spacingVars, callVars>>

\* generate_top50 lines 105-136: read, select, space, delete the old snapshot
GenerateTop50 ==
    /\ pc = "generate"
    /\ \E rs \in ScoreDescOrders(JoinedResults(session.results, templates, run_date)) :
          top' = SelectAndSpace(rs, run_date, RecentTop50(session.top50, run_date),
                                RecentTop10(session.top50, run_date))
    /\ session' = [session EXCEPT !.top50 = DeleteSnapshot(session.top50, run_date)]
    /\ deleted' = Cardinality(session.top50 \ session'.top50)
    /\ db' = AfterWrite(db, session')
    /\ pc' = "insert"
    /\ UNCHANGED <<templates, run_date, todo, evaluated, returned, skipped, raised, outcome,
                   ended_at, runs, selVars, spacingVars, callVars>>

\* generate_top50 lines 137-138: bulk_save_objects(top)
InsertTop50 ==
    /\ pc = "insert"
    /\ session' = [session EXCEPT !.top50 = InsertSnapshot(session.top50, top)]
    /\ db' = AfterWrite(db, session')
    /\ pc' = "commit"
    /\ UNCHANGED <<templates, run_date, todo, evaluated, returned, skipped, raised, outcome, top,
                   deleted, ended_at, runs, selVars, spacingVars, callVars>>

\* line 234: session.commit(); run_for_date returns.  What the finished run
\* evaluated, skipped, selected and deleted stays on record.
CommitTop50 ==
    /\ pc = "commit"
    /\ db' = session
    /\ pc' = "idle"
    /\ outcome' = "ok"
    /\ ended_at' = pc
    /\ UNCHANGED <<templates, session, run_date, todo, evaluated, returned, skipped, raised, top,
                   deleted, runs, selVars, spacingVars, callVars>>

\* the run is aborted (the process is killed, the store drops the
\* connection, a write fails): the open transaction is rolled back
Abort ==
    /\ pc # "idle"
    /\ RunFails("aborted")
    /\ UNCHANGED raised

(***************************************************************************)
(* Candidate streams handed to _select_top50.  A row is what               *)
(* generate_top50's statement yields: the UnicornResult columns that the   *)
(* selection reads.                                                        *)
(***************************************************************************)
\* scores fall along the stream, as ORDER BY score DESC delivers them
StreamScore(i) == (200 - i) * 1000

Row(e, p, i) ==
    [entity_id |-> e, pattern_id |-> p, metric_value |-> 1000,
     sample_size |-> 10, score |-> StreamScore(i)]

RowKinds == (1..MaxEntity) \X SmallPatterns

\* every stream of at most MaxStreamLen rows over RowKinds
SmallStreams ==
    UNION { { [i \in 1..n |-> Row(f[i][1], f[i][2], i)] : f \in [1..n -> RowKinds] }
            : n \in 0..MaxStreamLen }

\* long streams: np patterns of m rows each, pattern after pattern ("block")
\* or interleaved ("mix"); with dup = 1 neighbouring patterns share an entity
BigPattern(i, np, m, mode) ==
    IF mode = "block" THEN ((i - 1) \div m) + 1 ELSE ((i - 1) % np) + 1

BigEntity(i, np, m, mode, dup) ==
    IF mode = "block"
    THEN (((i - 1) \div m) * (m - dup)) + ((i - 1) % m) + 1
    ELSE (((i - 1) \div np) * (np - dup)) + ((i - 1) % np) + 1

BigStream(np, m, mode, dup) ==
    [i \in 1..(np * m) |->
        Row(BigEntity(i, np, m, mode, dup), PATTERN_IDS[BigPattern(i, np, m, mode)], i)]

BigStreams ==
    { BigStream(np, m, mode, dup) :
        np \in 1..MaxBigPatterns,
        m \in (MAX_PER_PATTERN_PER_DAY - 1)..(MAX_PER_PATTERN_PER_DAY + BigExtra),
        mode \in {"block", "mix"},
        dup \in 0..1 }

\* (rows in lookback snapshots, rows of rank <= 10 among them) of one entity
CooldownCounts == {<<0, 0>>, <<2, 2>>, <<3, 0>>, <<3, 2>>}

\* lookback histories for the short streams: entities 1 and 2 have one
SmallHistories == [1..2 -> CooldownCounts]

\* lookback histories for the long streams: at most one entity, around rank 10
BigHistories ==
    {EmptyMap} \cup
    { [e \in {h} |-> c] : h \in {1, TOP10_RANK, TOP10_RANK + 1},
                          c \in CooldownCounts \ {<<0, 0>>} }

Recent50Of(hist) == [e \in DOMAIN hist |-> hist[e][1]]
Recent10Of(hist) == [e \in {x \in DOMAIN hist : hist[x][2] > 0} |-> hist[e][2]]

(***************************************************************************)
(* Pattern templates of the model: a seed-like valid template and its      *)
(* variants, one per way a template can fail.                              *)
(***************************************************************************)
BaseTemplate ==
    [enabled |-> TRUE, complexity_score |-> 1, requires_count |-> FALSE, count_value |-> "",
     filters_json |-> JDict(<<KV("conditions", JList(<<>>))>>),
     metric |-> "count_hr", metric_expr |-> "", entity_type |-> "batter",
     base_table |-> "pitch_facts", order_direction |-> "desc", target_sample |-> 50,
     min_sample |-> 10, unicorn_weight |-> 1200, public_weight |-> 1200,
     category |-> "A_BARRELS"]

TooComplexTemplate == [BaseTemplate EXCEPT !.complexity_score = 5]

CountMissingTemplate == [BaseTemplate EXCEPT !.requires_count = TRUE]

BannedFieldTemplate ==
    [BaseTemplate EXCEPT !.filters_json =
        JDict(<<KV("conditions",
                   JList(<<JDict(<<KV("field", JStr("inning")), KV("op", JStr(">=")),
                                   KV("value", JNum(7))>>)>>))>>)]

UnknownMetricTemplate == [BaseTemplate EXCEPT !.metric = "mystery_rate"]

DisabledTemplate == [BaseTemplate EXCEPT !.enabled = FALSE]

\* seed_patterns.py _core_hitter_pattern: the window under filters_json.window
WindowTemplate(entity_type, window_type) ==
    [BaseTemplate EXCEPT
        !.entity_type = entity_type,
        !.filters_json =
            JDict(<<KV("conditions", JList(<<>>)),
                    KV("window", JDict(<<KV("type", JStr(window_type)),
                                         KV("n", JNum(50))>>))>>)]

TemplateCatalogue ==
    {BaseTemplate, TooComplexTemplate, CountMissingTemplate, BannedFieldTemplate,
     UnknownMetricTemplate, DisabledTemplate}

PipelinePatterns == {PATTERN_IDS[1], PATTERN_IDS[2]}

(***************************************************************************)
(* Answers of the fact store to a pattern's query: rows of (entity_id,     *)
(* metric_value, sample_size) in the query's ORDER BY.                     *)
(***************************************************************************)
QRow(e, m, n) == [entity_id |-> e, metric_value |-> Num(m), sample_size |-> Num(n)]

QueryAnswers ==
    {<<>>,
     <<QRow(1, 1000, 60)>>,
     <<QRow(1, 1000, 60), QRow(2, 1000, 10)>>}

(***************************************************************************)
(* Specification of run_for_date over the store.                           *)
(***************************************************************************)
SpacingIdle ==
    /\ spacing_in = <<>>
    /\ spacing_out = <<>>
    /\ spacing_pc = "idle"

ScoreIdle ==
    /\ score_pattern = BaseTemplate
    /\ score_rows = <<>>
    /\ score_out = <<>>
    /\ score_pc = "idle"

RenderIdle == render = [pc |-> "idle"]

FilterIdle == filter = [pc |-> "idle"]

SelIdle ==
    /\ rows = <<>>
    /\ pos = 0
    /\ sel = SelStart
    /\ recent_top50 = EmptyMap
    /\ recent_top10 = EmptyMap

RunNotStarted ==
    /\ db = EmptyStore
    /\ session = EmptyStore
    /\ pc = "idle"
    /\ run_date = 1
    /\ todo = {}
    /\ evaluated = {}
    /\ returned = {}
    /\ skipped = {}
    /\ raised = {}
    /\ outcome = "none"
    /\ top = <<>>
    /\ deleted = 0
    /\ ended_at = "idle"
    /\ runs = 0

RunIdle ==
    /\ templates = [p \in PipelinePatterns |-> BaseTemplate]
    /\ RunNotStarted

Init ==
    /\ templates \in [PipelinePatterns -> TemplateCatalogue]
    /\ RunNotStarted
    /\ SelIdle
    /\ SpacingIdle
    /\ ScoreIdle
    /\ RenderIdle
    /\ FilterIdle

Next ==
    \/ RunStart(RunDates, MaxRuns)
    \/ SkipInvalid
    \/ Evaluate([p \in PipelinePatterns, d \in RunDates |-> QueryAnswers])
    \/ EvaluateRaisesInBuild
    \/ EvaluateRaisesInStore
    \/ CommitResults
    \/ GenerateTop50
    \/ InsertTop50
    \/ CommitTop50
    \/ Abort

Spec == Init /\ [][Next]_vars

(***************************************************************************)
(* Specification of run_for_date over several days, for the cooldown:      *)
(* three valid patterns; entity 1 is the best candidate of PAT-A and the   *)
(* last one of PAT-C on every date, the thirteen other candidates of a     *)
(* date are entities of that date only.  The dates put D-7 and D-8 at the  *)
(* two sides of the lookback window.                                       *)
(***************************************************************************)
MaxCoolRuns == 4

CoolPatterns == {PATTERN_IDS[1], PATTERN_IDS[2], PATTERN_IDS[3]}

CoolDates == {1, 2, 3, 8, 9}

DayEntity(d, k) == 100 * d + k

CoolRows(p, d) ==
    IF p = PATTERN_IDS[1]
    THEN <<QRow(1, 8000, 60), QRow(DayEntity(d, 2), 1400, 60),
           QRow(DayEntity(d, 3), 1300, 60), QRow(DayEntity(d, 4), 1200, 60),
           QRow(DayEntity(d, 5), 1100, 60)>>
    ELSE IF p = PATTERN_IDS[2]
         THEN <<QRow(DayEntity(d, 6), 5000, 60), QRow(DayEntity(d, 7), 2400, 60),
                QRow(DayEntity(d, 8), 2300, 60), QRow(DayEntity(d, 9), 1000, 60),
                QRow(DayEntity(d, 10), 500, 60)>>
         ELSE <<QRow(DayEntity(d, 11), 5000, 60), QRow(DayEntity(d, 12), 4500, 60),
                QRow(DayEntity(d, 13), 4000, 60), QRow(DayEntity(d, 14), 3500, 60),
                QRow(1, 0, 60)>>

CoolAnswers == [p \in CoolPatterns, d \in CoolDates |-> {CoolRows(p, d)}]

CoolInit ==
    /\ templates = [p \in CoolPatterns |-> BaseTemplate]
    /\ RunNotStarted
    /\ SelIdle
    /\ SpacingIdle
    /\ ScoreIdle
    /\ RenderIdle
    /\ FilterIdle

CoolNext ==
    \/ RunStart(CoolDates, MaxCoolRuns)
    \/ Evaluate(CoolAnswers)
    \/ CommitResults
    \/ GenerateTop50
    \/ InsertTop50
    \/ CommitTop50

SpecCooldown == CoolInit /\ [][CoolNext]_vars

(***************************************************************************)
(* Specification of the selection loop alone: the inputs are drawn in      *)
(* SelInit0 and SelectScan runs one iteration of the loop.                 *)
(***************************************************************************)
SelInit0 ==
    /\ \E rs \in SmallStreams, h \in SmallHistories :
          /\ rows = rs
          /\ recent_top50 = Recent50Of(h)
          /\ recent_top10 = Recent10Of(h)
    /\ pos = 0
    /\ sel = SelStart
    /\ SpacingIdle
    /\ ScoreIdle
    /\ RenderIdle
    /\ FilterIdle
    /\ RunIdle

SelInitBig ==
    /\ \E rs \in BigStreams, h \in BigHistories :
          /\ rows = rs
          /\ recent_top50 = Recent50Of(h)
          /\ recent_top10 = Recent10Of(h)
    /\ pos = 0
    /\ sel = SelStart
    /\ SpacingIdle
    /\ ScoreIdle
    /\ RenderIdle
    /\ FilterIdle
    /\ RunIdle

SelectScan ==
    /\ pos < Len(rows)
    /\ ~sel.halted
    /\ sel' = SelectStep(sel, rows[pos + 1], 1, recent_top50, recent_top10)
    /\ pos' = pos + 1
    /\ UNCHANGED <<rows, recent_top50, recent_top10, spacingVars, callVars, runVars>>

SelNext == SelectScan

SpecSel == (SelInit0 \/ SelInitBig) /\ [][SelNext]_vars

(***************************************************************************)
(* Specification of apply_min_score_spacing alone, on every list of at     *)
(* most MaxSpacingLen rows whose scores come from SpacingScores (negative, *)
(* zero, tiny, near-equal and distant scores, in any order).               *)
(***************************************************************************)
SpacingScores == {-1000, 0, 1, 90000, 99950, 100000}

SpacingLists ==
    UNION { { [i \in 1..n |-> [entity_id |-> i, score |-> f[i]]] :
                f \in [1..n -> SpacingScores] }
            : n \in 0..MaxSpacingLen }

SpacingInit ==
    /\ spacing_in \in SpacingLists
    /\ spacing_out = <<>>
    /\ spacing_pc = "called"
    /\ SelIdle
    /\ ScoreIdle
    /\ RenderIdle
    /\ FilterIdle
    /\ RunIdle

SpacingCall ==
    /\ spacing_pc = "called"
    /\ spacing_out' = apply_min_score_spacing(spacing_in)
    /\ spacing_pc' = "returned"
    /\ UNCHANGED <<selVars, spacing_in, callVars, runVars>>

SpacingNext == SpacingCall

SpecSpacing == SpacingInit /\ [][SpacingNext]_vars

(***************************************************************************)
(* Specification of run_for_date over patterns that declare windows: each  *)
(* pattern is a template without window, one with an unknown metric, or a  *)
(* batter or pitcher template with one of the three window types.          *)
(***************************************************************************)
MaxWindowRuns == 1

WINDOW_TYPES == {"last_n_ab", "last_n_pa", "last_n_days"}

WindowCatalogue ==
    {BaseTemplate, UnknownMetricTemplate}
    \cup {WindowTemplate(e, w) : e \in {"batter", "pitcher"}, w \in WINDOW_TYPES}

WindowInit ==
    /\ templates \in [PipelinePatterns -> WindowCatalogue]
    /\ RunNotStarted
    /\ SelIdle
    /\ SpacingIdle
    /\ ScoreIdle
    /\ RenderIdle
    /\ FilterIdle

WindowNext ==
    \/ RunStart(RunDates, MaxWindowRuns)
    \/ SkipInvalid
    \/ Evaluate([p \in PipelinePatterns, d \in RunDates |-> QueryAnswers])
    \/ EvaluateRaisesInBuild
    \/ EvaluateRaisesInStore
    \/ CommitResults
    \/ GenerateTop50
    \/ InsertTop50
    \/ CommitTop50
    \/ Abort

SpecWindow == WindowInit /\ [][WindowNext]_vars

(***************************************************************************)
(* Specification of compute_scores alone: every candidate list of at most  *)
(* MaxScoreRows well-formed rows over ScoreKinds (equal and different      *)
(* metric values, small and large samples, in any order), and every list   *)
(* of at most MaxMalformedRows rows that may be malformed.  Lists with an  *)
(* infinite metric value stay below the five rows of the z-score branch.   *)
(***************************************************************************)
MaxScoreRows == 5
MaxMalformedRows == 2

\* (metric_value, sample_size) of a well-formed candidate
ScoreKinds == {<<400, 10>>, <<400, 60>>, <<1000, 10>>, <<1000, 60>>, <<2000, 60>>}

\* the list of well-formed candidates of kinds f, entity i delivered as row i
ScoreList(f) == [i \in DOMAIN f |-> QRow(i, f[i][1], f[i][2])]

\* what a metric_value and a sample_size column can deliver
MetricCells == {Num(1000), Num(400), NoneVal, NaNVal, TextVal, InfVal}
SampleCells == {Num(60), Num(0 - 5), Num(0 - 50), Num(0 - 60), TextVal}

\* the list of rows with the cells f
CellList(f) ==
    [i \in DOMAIN f |-> [entity_id |-> i, metric_value |-> f[i][1], sample_size |-> f[i][2]]]

ScorePatterns ==
    { [BaseTemplate EXCEPT !.order_direction = c[1], !.target_sample = c[2]] :
        c \in {<<"desc", 50>>, <<"asc", 50>>, <<"desc", 0>>} }

ScoreInit ==
    /\ score_pattern \in ScorePatterns
    /\ \/ \E n \in 0..MaxScoreRows : \E f \in [1..n -> ScoreKinds] :
             score_rows = ScoreList(f)
       \/ \E n \in 0..MaxMalformedRows : \E f \in [1..n -> MetricCells \X SampleCells] :
             score_rows = CellList(f)
    /\ score_out = <<>>
    /\ score_pc = "called"
    /\ RenderIdle
    /\ FilterIdle
    /\ SelIdle
    /\ SpacingIdle
    /\ RunIdle

\* compute_scores returns its list
ScoreReturns ==
    /\ score_pc = "called"
    /\ "" \in compute_scores_raises(score_pattern, score_rows)
    /\ score_out' = compute_scores(score_pattern, score_rows, MARKET_WEIGHTS)
    /\ score_pc' = "returned"
    /\ UNCHANGED <<score_pattern, score_rows, render, filter, selVars, spacingVars, runVars>>

\* compute_scores ends with an exception
ScoreRaises ==
    /\ score_pc = "called"
    /\ compute_scores_raises(score_pattern, score_rows) # {""}
    /\ score_pc' = "raised"
    /\ UNCHANGED <<score_pattern, score_rows, score_out, render, filter,
                   selVars, spacingVars, runVars>>

ScoreNext == ScoreReturns \/ ScoreRaises

SpecScore == ScoreInit /\ [][ScoreNext]_vars

(***************************************************************************)
(* Specification of the description rendering of one Top-50 entry: the     *)
(* joined row _select_top50 reads (result columns, player name, team name, *)
(* description template) and the call at its line 83.                      *)
(***************************************************************************)
\* seed_patterns.py line 504 and templates of other shapes
DescriptionTemplates ==
    {<<Hole("player_name"), Lit(": "), Hole("metric_value"), Lit(" barrels ("),
       Hole("sample_size"), Lit(" batted balls, last 50 AB).")>>,
     <<Hole("player_name"), Lit(" ("), Hole("team_name"), Lit("): "), Hole("metric_value")>>,
     <<Hole("team_name"), Lit(" leads, "), Hole("team_name")>>,
     <<Lit("League leader in "), Hole("pattern_name")>>,
     <<Lit("League leader")>>,
     <<>>}

\* players.full_name is not null; the team comes from an outer join
PlayerNames == {<<Lit("Aaron Judge")>>, <<Lit("Mookie Betts")>>}
TeamNames == {<<>>, <<Lit("Yankees")>>}
RenderMetricValues == {0, 400, 12000, 12345}
RenderSampleSizes == {0, 10, 60}

RenderRows ==
    [template : DescriptionTemplates, player_name : PlayerNames, team_name : TeamNames,
     metric_value : RenderMetricValues, sample_size : RenderSampleSizes]

RenderInit ==
    /\ render \in {[pc |-> "called", row |-> r, description |-> <<>>] : r \in RenderRows}
    /\ ScoreIdle
    /\ FilterIdle
    /\ SelIdle
    /\ SpacingIdle
    /\ RunIdle

\* _select_top50 line 83
RenderCall ==
    /\ render.pc = "called"
    /\ render' = [render EXCEPT
                     !.pc = "returned",
                     !.description =
                         _render_description(render.row.template, render.row.player_name,
                                             render.row.team_name, render.row.metric_value)]
    /\ UNCHANGED <<filter, scoreVars, selVars, spacingVars, runVars>>

RenderNext == RenderCall

SpecRender == RenderInit /\ [][RenderNext]_vars

(***************************************************************************)
(* Specification of build_filter_clause alone: every filters_json whose    *)
(* condition list has at most MaxConditions conditions out of              *)
(* FilterConditions, and filters_json values without conditions.           *)
(***************************************************************************)
MaxConditions == 3

Cond(field, op, value) ==
    JDict(<<KV("field", JStr(field)), KV("op", op), KV("value", value)>>)

FilterConditions ==
    {Cond("pitch_type", JStr("="), JStr("FF")),
     Cond("pitch_type", JStr("="), JStr("x' OR '1'='1")),
     Cond("pitch_type", JStr("="), JNull),
     Cond("pitch_type", JStr("!="), JNull),
     Cond("pitch_type", JStr("in"), JList(<<JStr("FF"), JStr("SL")>>)),
     Cond("pitch_type", JStr("in"), JStr("FF")),
     Cond("launch_speed", JStr(">="), JNum(95)),
     Cond("launch_speed", JStr("like"), JNum(95)),
     Cond("launch_speed", JNull, JNum(95)),
     Cond("events", JStr("is not null"), JNull),
     JDict(<<KV("field", JStr("events")), KV("value", JStr("home_run"))>>),
     JDict(<<KV("op", JStr("=")), KV("value", JStr("FF"))>>)}

\* filters_json without a condition list
BareFilters ==
    {JNull, JDict(<<>>),
     JDict(<<KV("window", JDict(<<KV("type", JStr("last_n_days")), KV("n", JNum(7))>>))>>)}

FilterCalled(j) ==
    filter = [pc |-> "called", filters_json |-> j, clauses |-> <<>>,
              where_sql |-> <<>>, params |-> EmptyMap]

FilterInit ==
    /\ \/ \E j \in BareFilters : FilterCalled(j)
       \/ \E n \in 0..MaxConditions : \E cs \in [1..n -> FilterConditions] :
             FilterCalled(JDict(<<KV("conditions", JList(cs))>>))
    /\ ScoreIdle
    /\ RenderIdle
    /\ SelIdle
    /\ SpacingIdle
    /\ RunIdle

\* build_filter_clause returns
FilterCall ==
    /\ filter.pc = "called"
    /\ \E out \in {build_filter_clause(filter.filters_json)} :
          filter' = [filter EXCEPT !.pc = "returned", !.clauses = out.clauses,
                                   !.where_sql = out.where_sql, !.params = out.params]
    /\ UNCHANGED <<render, scoreVars, selVars, spacingVars, runVars>>

FilterNext == FilterCall

SpecFilter == FilterInit /\ [][FilterNext]_vars

(***************************************************************************)
(* Claims about the selection loop (SpecSel).                              *)
(***************************************************************************)
ScanEnded == pos = Len(rows) \/ sel.halted

ScannedRows == {i \in 1..pos : TRUE}

\* C1: the entity_id values of the selected list are pairwise distinct,
\* at every point of the scan and in the list returned.
C1_EntitiesDistinct ==
    \A i, j \in 1..Len(sel.top) :
        i # j => sel.top[i].entity_id # sel.top[j].entity_id

\* C1 witness: the scan has ended, an entity that was a candidate of two
\* different patterns is in the list (once).
C1_Witness ==
    /\ ScanEnded
    /\ \E i, j \in ScannedRows :
          /\ i < j
          /\ rows[i].entity_id = rows[j].entity_id
          /\ rows[i].pattern_id # rows[j].pattern_id
          /\ \E k \in 1..Len(sel.top) : sel.top[k].entity_id = rows[i].entity_id

\* C2: the ranks of the selected list are 1..N in list order and N <= 50.
C2_RanksDense ==
    /\ Len(sel.top) <= TOP50_SIZE
    /\ \A i \in 1..Len(sel.top) : sel.top[i].rank = i

\* C2 witness: the loop stopped at 50 accepted entries after skipping
\* candidates between accepted ones.
C2_Witness ==
    /\ sel.halted
    /\ Len(sel.top) = TOP50_SIZE
    /\ pos > Len(sel.top)
    /\ pos < Len(rows)

EntriesOfPattern(entries, p) == {i \in 1..Len(entries) : entries[i].pattern_id = p}

\* C3: no pattern holds more than MAX_PER_PATTERN_PER_DAY entries of the
\* selected list.
C3_PatternCap ==
    \A i \in 1..Len(sel.top) :
        Cardinality(EntriesOfPattern(sel.top, sel.top[i].pattern_id))
            <= MAX_PER_PATTERN_PER_DAY

\* C3 witness: a pattern holds exactly 5 entries although more than 5 of its
\* candidates, all of different entities without cooldown, were scanned ahead
\* of every other pattern's.
C3_Witness ==
    /\ ScanEnded
    /\ recent_top50 = EmptyMap
    /\ \E p \in {rows[i].pattern_id : i \in ScannedRows} :
          /\ Cardinality(EntriesOfPattern(sel.top, p)) = MAX_PER_PATTERN_PER_DAY
          /\ \A i \in 1..(MAX_PER_PATTERN_PER_DAY + 1) :
                /\ i \in ScannedRows
                /\ rows[i].pattern_id = p
                /\ \A j \in 1..(i - 1) : rows[j].entity_id # rows[i].entity_id

(***************************************************************************)
(* Claims about apply_min_score_spacing (SpecSpacing).                     *)
(***************************************************************************)
\* C4: after apply_min_score_spacing, every score is >= 0, each score is at
\* most (1 - MIN_REL_GAP) times the score before it, and the entries are in
\* the order they were handed in.
C4_SpacingHolds ==
    spacing_pc = "returned" =>
        /\ Len(spacing_out) = Len(spacing_in)
        /\ \A i \in 1..Len(spacing_out) :
              /\ spacing_out[i].entity_id = spacing_in[i].entity_id
              /\ spacing_out[i].score >= 0
              /\ i > 1 =>
                    spacing_out[i].score * GAP_DEN
                        <= spacing_out[i - 1].score * (GAP_DEN - MIN_REL_GAP_NUM)

\* C4 witness: scores 100.0 and 99.95 came back as 100.0 and 98.9.
C4_Witness ==
    /\ spacing_pc = "returned"
    /\ Len(spacing_in) = 2
    /\ spacing_in[1].score = 100000
    /\ spacing_in[2].score = 99950
    /\ spacing_out[1].score = 100000
    /\ spacing_out[2].score = 98900

(***************************************************************************)
(* Claims about run_for_date over the store (Spec).                        *)
(***************************************************************************)
Snapshot(table, d) == {r \in table : r.run_date = d}

CandidatesRead == JoinedResults(session.results, templates, run_date)

\* C5: the list generate_top50 selected is the list it selects for every
\* order in which the store may return the same result rows: rows of equal
\* score in any order give the same entities, patterns, order and scores.
C5_Deterministic ==
    pc = "insert" =>
        \A rs \in ScoreDescOrders(CandidatesRead) :
            SelectAndSpace(rs, run_date, RecentTop50(session.top50, run_date),
                           RecentTop10(session.top50, run_date)) = top

(***************************************************************************)
(* Claim about the cooldown (SpecCooldown).  The prior snapshots are those  *)
(* in the store when the Top-50 of the date is generated; they are still   *)
(* the committed ones when the run has finished.                           *)
(***************************************************************************)
PriorSnapshots == {r \in db.top50 : run_date - 7 <= r.run_date /\ r.run_date <= run_date - 1}

PriorDates(e) == {r.run_date : r \in {x \in PriorSnapshots : x.entity_id = e}}

PriorTop10Dates(e) ==
    {r.run_date : r \in {x \in PriorSnapshots : x.entity_id = e /\ x.rank <= 10}}

\* C6: the Top-50 of a finished run holds no entity that is in 3 or more of
\* the snapshots of the 7 dates before, and at rank <= 10 no entity that was
\* at rank <= 10 in 2 or more of them; a candidate without cooldown is in
\* the list unless the list is full or its pattern has its 5 entries.
C6_Cooldown ==
    outcome = "ok" =>
        /\ \A i \in 1..Len(top) :
              /\ Cardinality(PriorDates(top[i].entity_id)) < 3
              /\ top[i].rank <= 10 => Cardinality(PriorTop10Dates(top[i].entity_id)) < 2
        /\ \A r \in JoinedResults(db.results, templates, run_date) :
              (/\ Cardinality(PriorDates(r.entity_id)) < 3
               /\ Cardinality(PriorTop10Dates(r.entity_id)) < 2
               /\ Len(top) < 50
               /\ Cardinality(EntriesOfPattern(top, r.pattern_id)) < 5)
                  => \E i \in 1..Len(top) : top[i].entity_id = r.entity_id

\* C6 witness: an entity that was twice at rank <= 10 and then once below
\* rank 10 in the 7 dates before is a candidate of the date and not in its
\* Top-50, which holds the 13 other candidates at ranks 1..13.
C6_Witness ==
    /\ outcome = "ok"
    /\ Len(top) = 13
    /\ \E r \in JoinedResults(db.results, templates, run_date) :
          /\ Cardinality(PriorDates(r.entity_id)) = 3
          /\ Cardinality(PriorTop10Dates(r.entity_id)) = 2
          /\ \A i \in 1..Len(top) : top[i].entity_id # r.entity_id /\ top[i].rank = i

(***************************************************************************)
(* Claims about the patterns of a run (Spec).                              *)
(***************************************************************************)
\* C7: a pattern with complexity_score above 4, or failing another check of
\* the validator, is neither evaluated nor does its evaluation raise; the
\* step that skips it leaves the run in its loop; and when the loop is over
\* every enabled pattern that passes validation has been evaluated.
C7_InvalidSkipped ==
    /\ [](\A p \in evaluated \cup raised :
              /\ templates[p].complexity_score <= 4
              /\ ~validate_pattern_raises(templates[p]))
    /\ [](\A p \in skipped :
              templates[p].enabled /\ validate_pattern_raises(templates[p]))
    /\ [](pc \in {"generate", "insert", "commit"} \/ outcome = "ok" =>
              /\ skipped \cup evaluated = EnabledPatterns(templates)
              /\ {p \in EnabledPatterns(templates) : templates[p].complexity_score > 4}
                     \subseteq skipped)
    /\ [][skipped' \ skipped # {} => pc' = "loop" /\ outcome' = "running"]_vars

\* C7 witness: a run that skipped a pattern of complexity 5 evaluated another
\* pattern and finished with a non-empty Top-50.
C7_Witness ==
    /\ outcome = "ok"
    /\ \E p \in skipped : templates[p] = TooComplexTemplate
    /\ evaluated # {}
    /\ top # <<>>
    /\ Snapshot(db.top50, run_date) = SeqToSet(top)

\* C8: when the evaluation of a pattern raises, the run stays in its loop
\* with the other patterns still to do and the results written so far kept.
C8_FailureIsolated ==
    [][raised' \ raised # {} =>
          /\ pc' = "loop"
          /\ outcome' = "running"
          /\ todo' = todo \ raised'
          /\ session' = session]_vars

\* C9: the committed snapshot of a date changes only in the step that commits
\* the whole new list of that date, and then it is that list; a run that
\* fails or is aborted leaves every committed snapshot as it was.
C9_AllOrNothing ==
    [][/\ \A d \in RunDates :
             Snapshot(db'.top50, d) # Snapshot(db.top50, d) =>
                 /\ pc = "commit"
                 /\ outcome' = "ok"
                 /\ d = run_date
                 /\ Snapshot(db'.top50, d) = SeqToSet(top)
       /\ outcome' \in {"raised", "aborted"} => db'.top50 = db.top50]_vars

\* C9 witness: a run was aborted after the delete of the old snapshot and
\* the committed store still holds a snapshot of that date.
C9_Witness ==
    /\ outcome = "aborted"
    /\ ended_at \in {"insert", "commit"}
    /\ Snapshot(db.top50, run_date) # {}

\* C10: after the commit of generate_top50 the stored snapshot of the date
\* is exactly the selected list, one row per entry.
C10_SnapshotIsNewList ==
    outcome = "ok" =>
        /\ Snapshot(db.top50, run_date) = SeqToSet(top)
        /\ Cardinality(Snapshot(db.top50, run_date)) = Len(top)

\* C10 witness: a finished run replaced a snapshot by a shorter list.
C10_Witness ==
    /\ outcome = "ok"
    /\ deleted > Len(top)
    /\ Len(top) > 0

\* the stored result rows of (d, pattern)
StoredResults(table, d, p) == {r \in table : r.run_date = d /\ r.pattern_id = p}

\* C11: after run_for_date(D) completed, for every pattern evaluated in that
\* run the stored result rows of (D, pattern) are exactly the rows scored in
\* that run, no rows at all when the pattern's query returned no candidate.
C11_Superseded ==
    (pc = "idle" /\ outcome = "ok") =>
        \A p \in evaluated :
            StoredResults(db.results, run_date, p) = {r \in returned : r.pattern_id = p}

(***************************************************************************)
(* Claims about compute_scores (SpecScore).                                *)
(***************************************************************************)
\* a row that coerces: a finite number as metric_value and a non-negative
\* integer as sample_size
WellFormedRow(r) ==
    r.metric_value.k = "num" /\ r.sample_size.k = "num" /\ r.sample_size.v >= 0

\* every row handed to compute_scores coerces
WellFormedInput == \A i \in 1..Len(score_rows) : WellFormedRow(score_rows[i])

ScoreReturned == score_pc = "returned" /\ score_out # <<>>

RawScores == {score_out[i].z_raw : i \in 1..Len(score_out)}

\* the returned candidates went through the rank-spread transform: at most
\* 4 of them, or all metric values equal
RankSpreadCase ==
    /\ ScoreReturned
    /\ \/ Len(score_out) <= 4
       \/ \A i, j \in 1..Len(score_out) : score_out[i].metric_value = score_out[j].metric_value

RawScoresSpanRange ==
    /\ \A z \in RawScores : z <= 2 * SCALE /\ z >= 0
    /\ 2 * SCALE \in RawScores
    /\ 0 \in RawScores
    /\ Cardinality(RawScores) = Len(score_out)

\* C12 as stated: every non-empty candidate list of at most 4 candidates, or
\* of equal metric values, gets raw scores with maximum 2.0, minimum 0.0 and
\* no raw score shared (a single candidate included).
C12_SpanAnySize == RankSpreadCase => RawScoresSpanRange

\* C12: a list of two or more candidates that has at most 4 candidates, or
\* whose metric values are all equal, gets raw scores with maximum exactly
\* 2.0, minimum exactly 0.0 and no two candidates sharing a raw score; a
\* single candidate gets the raw score 2.0.
C12_RankSpreadRange ==
    RankSpreadCase =>
        IF Len(score_out) = 1 THEN RawScores = {2 * SCALE} ELSE RawScoresSpanRange

\* C12 witness: five candidates of one metric value were scored.
C12_Witness ==
    /\ RankSpreadCase
    /\ Len(score_out) = 5
    /\ RawScoresSpanRange

\* C13: within one pattern with target_sample > 0 and positive weights, of
\* two candidates with equal metric_value the one with the larger
\* sample_size gets a strictly higher final score, whatever the order of the
\* input rows and whichever normalization branch applies.
C13_LargerSampleWins ==
    (ScoreReturned /\ WellFormedInput /\ score_pattern.target_sample > 0) =>
        \A i, j \in 1..Len(score_out) :
            (/\ score_out[i].metric_value = score_out[j].metric_value
             /\ score_out[i].sample_size > score_out[j].sample_size)
                => score_out[i].score > score_out[j].score

\* the raw score of the candidate delivered as row i of a well-formed list
RawOf(i) == (CHOOSE r \in SeqToSet(score_out) : r.entity_id = i).z_raw

\* row i comes before row j in the direction-ordered list: the better metric
\* value first, equal values in input order
OrderedBefore(i, j) ==
    LET vi == score_rows[i].metric_value.v
        vj == score_rows[j].metric_value.v
    IN  \/ IF Descending(score_pattern) THEN vi > vj ELSE vi < vj
        \/ vi = vj /\ i < j

\* 2 * (1 - k/(n-1)) for the positions k = 0 .. n-1
SpreadScores(n) == {(2 * SCALE * (n - 1 - k)) \div (n - 1) : k \in 0..(n - 1)}

\* C14: under the rank-spread transform with n >= 2 candidates the candidate
\* at 0-based position k of the direction-ordered list gets the raw score
\* 2 * (1 - k/(n-1)), candidates of equal metric value keeping their input
\* order; three candidates of metric_value 1.0 get 2.0, 1.0, 0.0 in input order.
C14_RankSpreadByPosition ==
    (RankSpreadCase /\ WellFormedInput /\ Len(score_rows) >= 2) =>
        /\ RawScores = SpreadScores(Len(score_rows))
        /\ \A i, j \in 1..Len(score_rows) : OrderedBefore(i, j) => RawOf(i) > RawOf(j)
        /\ (/\ Len(score_rows) = 3
            /\ \A i \in 1..3 : score_rows[i].metric_value = Num(1000))
              => <<RawOf(1), RawOf(2), RawOf(3)>> = <<2 * SCALE, SCALE, 0>>

\* C14 witness: three candidates of metric_value 1.0 were scored by a
\* descending pattern.
C14_Witness ==
    /\ RankSpreadCase
    /\ Descending(score_pattern)
    /\ Len(score_rows) = 3
    /\ \A i \in 1..3 : score_rows[i].metric_value = Num(1000)
    /\ <<RawOf(1), RawOf(2), RawOf(3)>> = <<2 * SCALE, SCALE, 0>>

\* C15: compute_scores never fails on a malformed candidate row: a row whose
\* metric_value is null, NaN, non-numeric or not finite, or whose sample_size
\* does not parse as a non-negative integer, is dropped and the remaining
\* rows are scored; an input without any valid row yields an empty result.
C15_MalformedDropped ==
    /\ score_pc # "raised"
    /\ score_pc = "returned" =>
          {score_out[i].entity_id : i \in 1..Len(score_out)}
              = {score_rows[i].entity_id :
                    i \in {j \in 1..Len(score_rows) : WellFormedRow(score_rows[j])}}

(***************************************************************************)
(* Claims about the rendered description (SpecRender).                     *)
(***************************************************************************)
ENTRY_PLACEHOLDERS == {"player_name", "team_name", "metric_value", "sample_size"}

\* the value of the entry that a placeholder stands for
EntryValue(row, key) ==
    CASE key = "player_name" -> row.player_name
      [] key = "team_name" -> row.team_name
      [] key = "metric_value" -> <<Fixed3(row.metric_value)>>
      [] key = "sample_size" -> <<IntText(row.sample_size)>>

\* the template with every one of the four placeholders replaced at once
RECURSIVE Substituted(_, _)
Substituted(template, row) ==
    IF template = <<>>
    THEN <<>>
    ELSE (IF Head(template).k = "hole" /\ Head(template).s \in ENTRY_PLACEHOLDERS
          THEN EntryValue(row, Head(template).s)
          ELSE <<Head(template)>>)
            \o Substituted(Tail(template), row)

\* C16: for every Top-50 entry the rendered description is the pattern's
\* description template with each of the placeholders {{player_name}},
\* {{team_name}}, {{metric_value}} and {{sample_size}} replaced by the
\* entry's own values; none of the four placeholders remains in the output.
C16_DescriptionRendered ==
    render.pc = "returned" =>
        /\ render.description = Substituted(render.row.template, render.row)
        /\ \A i \in 1..Len(render.description) :
              ~(render.description[i].k = "hole"
                  /\ render.description[i].s \in ENTRY_PLACEHOLDERS)

(***************************************************************************)
(* Claims about build_filter_clause (SpecFilter).                          *)
(***************************************************************************)
FilterReturned == filter.pc = "returned"

\* the operator of the condition, read without regard to case, is one of
\* the ten supported ones
SupportedCondition(c) == OpOf(c) \in SUPPORTED_OPS

NamedSupportedCondition(c) == SupportedCondition(c) /\ ~Falsy(JGet(c, "field"))

FieldToken(c) == IF JGet(c, "field").t = "str" THEN Sql(JGet(c, "field").s) ELSE Sql("")

ParamRefs(clauses) ==
    UNION { {clauses[i][j].n : j \in {x \in 1..Len(clauses[i]) : clauses[i][x].k = "param"}}
            : i \in 1..Len(clauses) }

\* the clauses are those of the conditions `kept`, one each and in their
\* order, AND-joined, and nothing else binds a parameter
ClausesAreOf(kept) ==
    /\ Len(filter.clauses) = Len(kept)
    /\ \A i \in 1..Len(kept) : filter.clauses[i][1] = FieldToken(kept[i])
    /\ filter.where_sql = JoinClauses(filter.clauses)
    /\ DOMAIN filter.params = ParamRefs(filter.clauses)

\* C17 as stated: a condition whose operator is not supported adds no clause
\* and binds no parameter, and each remaining condition yields exactly one
\* clause, AND-joined in the original order of the condition list.
C17_EverySupportedCondition ==
    FilterReturned =>
        ClausesAreOf(SelectSeq(ConditionsOf(filter.filters_json), SupportedCondition))

\* C17: build_filter_clause returns whatever the operators are; a condition
\* whose operator is not one of the ten supported ones adds no clause and
\* binds no parameter, and each remaining condition that names a field
\* yields exactly one clause, AND-joined in the original order.
C17_UnsupportedDropped ==
    /\ filter.pc = "called" => Len(build_filter_clause(filter.filters_json).where_sql) >= 0
    /\ FilterReturned =>
          ClausesAreOf(SelectSeq(ConditionsOf(filter.filters_json), NamedSupportedCondition))

\* C17 witness: a condition with an unsupported operator stood between two
\* supported ones, and the two clauses came out in their order.
C17_Witness ==
    /\ FilterReturned
    /\ Len(ConditionsOf(filter.filters_json)) = 3
    /\ SupportedCondition(ConditionsOf(filter.filters_json)[1])
    /\ ~SupportedCondition(ConditionsOf(filter.filters_json)[2])
    /\ SupportedCondition(ConditionsOf(filter.filters_json)[3])
    /\ Len(filter.clauses) = 2
    /\ filter.clauses[1][1] = Sql("pitch_type")
    /\ filter.clauses[2][1] = Sql("events")

\* values to put in the place of a condition's non-null value
OtherValues == {JStr("x' OR '1'='1"), JList(<<JNum(95), JStr("SL")>>)}

\* the condition with its non-null value replaced
WithValue(c, v) ==
    IF JGet(c, "value") = JNull
    THEN c
    ELSE JDict([i \in 1..Len(c.items) |->
                   IF c.items[i].key = "value" THEN KV("value", v) ELSE c.items[i]])

\* the condition lists that differ from `conditions` only in non-null values
ValueVariants(conditions) ==
    { [i \in 1..Len(conditions) |-> WithValue(conditions[i], vs[i])] :
        vs \in [1..Len(conditions) -> OtherValues] }

\* the conditions that bind a parameter: a field, a supported comparison
\* operator, and not the NULL forms of = and !=
CarriesValue(c) ==
    /\ NamedSupportedCondition(c)
    /\ OpOf(c) \notin {"IS NULL", "IS NOT NULL"}
    /\ ~(JGet(c, "value") = JNull /\ OpOf(c) \in {"=", "!="})

\* the tokens a non-null value of the condition list would leave in the text
ValueTokens(conditions) ==
    UNION { SeqToSet(TextOf(JGet(conditions[i], "value"))) : i \in 1..Len(conditions) }

\* C18: filter values are only ever bound as parameters: condition lists that
\* differ only in their non-null values yield the same predicate text, the
\* values appear solely in the parameter map, and each value-carrying
\* condition gets its own parameter name (an IN / NOT IN list bound as one
\* tuple parameter).
C18_ValuesOnlyBound ==
    FilterReturned =>
        LET conditions == ConditionsOf(filter.filters_json)
            carrying == SelectSeq(conditions, CarriesValue)
            refs == SelectSeq(filter.where_sql, LAMBDA tok : tok.k = "param")
        IN  /\ \A other \in ValueVariants(conditions) :
                  build_filter_clause(JDict(<<KV("conditions", JList(other))>>)).where_sql
                      = filter.where_sql
            /\ SeqToSet(filter.where_sql) \cap ValueTokens(conditions) = {}
            /\ Len(refs) = Len(carrying)
            /\ \A i, j \in 1..Len(refs) : i # j => refs[i].n # refs[j].n
            /\ DOMAIN filter.params = {refs[i].n : i \in 1..Len(refs)}
            /\ \A i \in 1..Len(refs) :
                  LET value == JGet(carrying[i], "value")
                  IN  filter.params[refs[i].n] =
                          IF OpOf(carrying[i]) \in {"IN", "NOT IN"}
                          THEN JTuple(IF value.t = "list" THEN value.items ELSE <<value>>)
                          ELSE value

\* C18 witness: two conditions with the same field and operator and
\* different values, one of them an IN list, were bound to p_0 and p_1.
C18_Witness ==
    /\ FilterReturned
    /\ ConditionsOf(filter.filters_json) =
          <<Cond("pitch_type", JStr("="), JStr("x' OR '1'='1")),
            Cond("pitch_type", JStr("in"), JList(<<JStr("FF"), JStr("SL")>>))>>
    /\ filter.where_sql =
          <<Sql("AND"), Sql("pitch_type"), Sql("="), ParamRef(0),
            Sql("AND"), Sql("pitch_type"), Sql("IN"), ParamRef(1)>>
    /\ filter.params[0] = JStr("x' OR '1'='1")
    /\ filter.params[1] = JTuple(<<JStr("FF"), JStr("SL")>>)

(***************************************************************************)
(* Claims about windowed patterns (SpecWindow).                            *)
(***************************************************************************)
\* a last_n_ab or last_n_pa window on a pattern that is not batter-scoped
WindowMisuse(pattern) ==
    pattern.entity_type # "batter" /\ WindowType(pattern) \in {"last_n_ab", "last_n_pa"}

ResultsOfPattern(p) == {r \in db.results \cup session.results : r.pattern_id = p}

\* C19: a pattern whose entity_type is not batter and that declares a
\* last_n_ab or last_n_pa window is rejected with an error: build_query
\* raises ValueError for it, no query is executed for it (no step of the
\* loop can evaluate it), it is never among the evaluated patterns and no
\* results are stored for it.
C19_WindowMisuseRejected ==
    \A p \in DOMAIN templates :
        WindowMisuse(templates[p]) =>
            /\ build_query_raises(templates[p]) = "ValueError"
            /\ validate_pattern_raises(templates[p]) \/ build_query_raises(templates[p]) # ""
            /\ p \notin evaluated
            /\ ResultsOfPattern(p) = {}

\* C19 witness: a run completed in which a pitcher pattern with a last_n_ab
\* window was rejected and the other pattern was evaluated and stored.
C19_Witness ==
    /\ pc = "idle" /\ outcome = "ok"
    /\ templates[PATTERN_IDS[1]] = WindowTemplate("pitcher", "last_n_ab")
    /\ PATTERN_IDS[1] \in skipped
    /\ PATTERN_IDS[2] \in evaluated
    /\ ResultsOfPattern(PATTERN_IDS[1]) = {}
    /\ ResultsOfPattern(PATTERN_IDS[2]) # {}

\* the windowed templates that violate no authoring constraint
WellAuthoredWindowed ==
    {WindowTemplate("batter", w) : w \in WINDOW_TYPES}
        \cup {WindowTemplate("pitcher", "last_n_days")}

\* C20: a pattern that declares a window of a supported type under
\* filters_json.window and otherwise violates no authoring constraint passes
\* validate_pattern and is evaluated by run_for_date.
C20_WindowedEvaluated ==
    \A p \in DOMAIN templates :
        templates[p] \in WellAuthoredWindowed =>
            /\ ~validate_pattern_raises(templates[p])
            /\ (pc = "idle" /\ outcome = "ok") => p \in evaluated

(***************************************************************************)
(* Further claims about compute_scores (SpecScore).                        *)
(***************************************************************************)
\* C21: in the list compute_scores returns, final scores are strictly
\* decreasing with rank: no two consecutive ranks carry equal scores, and
\* each score lies below the one before it by at least 1% of that score.
C21_StrictlyDecreasing ==
    (ScoreReturned /\ WellFormedInput) =>
        \A i \in 1..(Len(score_out) - 1) :
            /\ score_out[i + 1].score < score_out[i].score
            /\ (score_out[i].score - score_out[i + 1].score) * 100 >= score_out[i].score

(***************************************************************************)
(* Further claims about run_for_date over the store.                       *)
(***************************************************************************)
\* the candidates of each pattern come contiguously and in their rank order
PatternByPattern(rs) ==
    /\ \A i, j, k \in 1..Len(rs) :
          (i < j /\ j < k /\ rs[i].pattern_id = rs[k].pattern_id)
              => rs[j].pattern_id = rs[i].pattern_id
    /\ \A i, j \in 1..Len(rs) :
          (i < j /\ rs[i].pattern_id = rs[j].pattern_id) => rs[i].rank < rs[j].rank

\* the patterns of the stream in the order of their first candidate
FirstPatterns(rs) ==
    SelectSeq([i \in 1..Len(rs) |->
                  IF \E j \in 1..(i - 1) : rs[j].pattern_id = rs[i].pattern_id
                  THEN "" ELSE rs[i].pattern_id],
              LAMBDA x : x # "")

\* C22: generate_top50 scans the day's candidates pattern by pattern, each
\* pattern's candidates contiguously in their rank order, the patterns in an
\* order fixed by the run date alone: every stream the scan can be given
\* for the date has that shape and the same pattern order.
C22_PatternByPattern ==
    pc = "generate" =>
        \A rs \in ScoreDescOrders(CandidatesRead) :
            /\ PatternByPattern(rs)
            /\ \A other \in ScoreDescOrders(CandidatesRead) :
                  FirstPatterns(other) = FirstPatterns(rs)

(***************************************************************************)
(* Specification of run_for_date with the pattern catalogue re-seeded      *)
(* between runs: a pattern valid in one run can be invalid in the next.    *)
(***************************************************************************)
MaxReseedRuns == 2

ReseedCatalogue == {BaseTemplate, TooComplexTemplate, BannedFieldTemplate}

\* seed_patterns.py seed(): every seeded pattern's row takes the seed's values
seed(seeds) ==
    /\ pc = "idle"
    /\ \E data \in [DOMAIN templates -> seeds] :
          /\ data # templates
          /\ templates' = data
    /\ UNCHANGED <<db, session, pc, run_date, todo, evaluated, returned, skipped, raised,
                   outcome, top, deleted, ended_at, runs, selVars, spacingVars, callVars>>

ReseedInit ==
    /\ RunIdle
    /\ SelIdle
    /\ SpacingIdle
    /\ ScoreIdle
    /\ RenderIdle
    /\ FilterIdle

ReseedNext ==
    \/ seed(ReseedCatalogue)
    \/ RunStart(RunDates, MaxReseedRuns)
    \/ SkipInvalid
    \/ Evaluate([p \in PipelinePatterns, d \in RunDates |-> QueryAnswers])
    \/ CommitResults
    \/ GenerateTop50
    \/ InsertTop50
    \/ CommitTop50

SpecReseed == ReseedInit /\ [][ReseedNext]_vars

\* C23: after run_for_date(D) completed, the Top-50 snapshot of D holds no
\* entry of a pattern that the run skipped as invalid.
C23_SkippedNotListed ==
    (pc = "idle" /\ outcome = "ok") =>
        \A p \in skipped : \A r \in Snapshot(db.top50, run_date) : r.pattern_id # p

(***************************************************************************)
(* Further claims about _select_top50 (SpecSel).                           *)
(***************************************************************************)
\* the entity of the candidate is already in the list
AlreadyAccepted(row) == \E i \in 1..Len(sel.top) : sel.top[i].entity_id = row.entity_id

\* the candidate's pattern already holds its five entries of the list
PatternFull(row) ==
    Cardinality(EntriesOfPattern(sel.top, row.pattern_id)) >= MAX_PER_PATTERN_PER_DAY

\* a cooldown ceiling blocks the candidate at the rank it would take
CooldownBlocks(row) ==
    \/ Get(recent_top50, row.entity_id) >= TOP50_MAX_APPEARANCES_LOOKBACK
    \/ /\ Len(sel.top) + 1 <= TOP10_RANK
       /\ Get(recent_top10, row.entity_id) >= TOP10_MAX_APPEARANCES_LOOKBACK

\* the scan of one candidate: rejected for one of the three reasons, else
\* appended to the list
ScanAcceptsUnlessBlocked ==
    pos < Len(rows) =>
        LET row == rows[pos + 1] IN
            IF AlreadyAccepted(row) \/ PatternFull(row) \/ CooldownBlocks(row)
            THEN sel'.top = sel.top
            ELSE /\ Len(sel.top) < TOP50_SIZE
                 /\ Len(sel'.top) = Len(sel.top) + 1
                 /\ SubSeq(sel'.top, 1, Len(sel.top)) = sel.top
                 /\ sel'.top[Len(sel'.top)].entity_id = row.entity_id
                 /\ sel'.top[Len(sel'.top)].pattern_id = row.pattern_id

\* the scan is over: the stream is exhausted or the loop was left at rank 50
ScanOver == pos = Len(rows) \/ sel.halted

\* C24: a scanned candidate is rejected only when its entity is already
\* accepted, its pattern holds five entries or a cooldown ceiling blocks it;
\* every other candidate scanned before 50 were accepted is accepted; the
\* list returned is shorter than 50 exactly when the stream was exhausted
\* before the fiftieth acceptance.
C24_RejectedOnlyForCause ==
    /\ [][ScanAcceptsUnlessBlocked]_vars
    /\ [](ScanOver => (Len(sel.top) < TOP50_SIZE <=> (pos = Len(rows) /\ ~sel.halted)))
    /\ [](Len(sel.top) <= TOP50_SIZE)

\* C24 witness: a stream scanned to its end with candidates accepted and
\* candidates rejected, one of them by a cooldown ceiling, the list short.
C24_Witness ==
    /\ pos = Len(rows)
    /\ ~sel.halted
    /\ Len(sel.top) > TOP10_RANK
    /\ Len(sel.top) < pos
    /\ \E i \in 1..Len(rows) :
          /\ Get(recent_top10, rows[i].entity_id) >= TOP10_MAX_APPEARANCES_LOOKBACK
          /\ Get(recent_top50, rows[i].entity_id) < TOP50_MAX_APPEARANCES_LOOKBACK
          /\ \E j \in 1..Len(sel.top) :
                sel.top[j].entity_id = rows[i].entity_id /\ j > TOP10_RANK

(***************************************************************************)
(* Further claims about run_for_date (Spec).                               *)
(***************************************************************************)
\* generate_top50 has been entered and the run has not ended
Selecting == pc \in {"generate", "insert", "commit"}

\* C25: the Top-50 selection of a run starts only after every pattern of the
\* run has been evaluated or skipped and the result writes are committed;
\* no evaluation is left to interleave with it; the rows it reads include
\* the rows scored in the run for every evaluated pattern.
C25_SelectionAfterEvaluation ==
    Selecting =>
        /\ todo = {}
        /\ evaluated \cup skipped = EnabledPatterns(templates)
        /\ db.results = session.results
        /\ pc = "generate" => returned \subseteq CandidatesRead

\* C25 witness: the selection is about to read the committed results of two
\* patterns evaluated in the run, one of them with two candidates.
C25_Witness ==
    /\ pc = "generate"
    /\ Cardinality(evaluated) = 2
    /\ \A p \in evaluated : \E r \in returned : r.pattern_id = p
    /\ \E r \in returned : r.rank = 2

(***************************************************************************)
(* Further claim about the cooldown (SpecCooldown).                        *)
(***************************************************************************)
\* the dates of d-7..d whose stored snapshot holds entity e
SnapshotDates(e, d) ==
    {x \in (d - TOP50_LOOKBACK_DAYS)..d :
        \E r \in Snapshot(db.top50, x) : r.entity_id = e}

\* C26: whatever runs have been made, in whatever order of dates, every
\* entity is in at most TOP50_MAX_APPEARANCES_LOOKBACK of the stored
\* snapshots of any eight consecutive dates d-7..d.
C26_AtMostThreeInWindow ==
    \A r \in db.top50 : \A d \in CoolDates :
        Cardinality(SnapshotDates(r.entity_id, d)) <= TOP50_MAX_APPEARANCES_LOOKBACK

(***************************************************************************)
(* Frame of the two writers of run_for_date (SpecReseed).                  *)
(***************************************************************************)
\* the result rows that are not rows of (d, p)
ResultsBeside(table, d, p) == {r \in table : ~(r.run_date = d /\ r.pattern_id = p)}

\* the snapshot rows of the dates other than d
SnapshotsBeside(table, d) == {r \in table : r.run_date # d}

\* C27: persisting the results of (D, P) leaves the result rows of every
\* other (date, pattern), the snapshots and the templates as they were;
\* generating the Top-50 of D leaves the snapshots of the other dates, all
\* result rows and all templates as they were.
C27_Frame ==
    [][/\ (pc = "loop" /\ pc' = "loop") =>
             /\ \E p \in todo \ todo' :
                   ResultsBeside(session'.results, run_date, p)
                       = ResultsBeside(session.results, run_date, p)
             /\ session'.top50 = session.top50
             /\ templates' = templates
             /\ db' = db
       /\ (pc \in {"generate", "insert", "commit"} /\ pc' # "idle") =>
             /\ SnapshotsBeside(session'.top50, run_date)
                   = SnapshotsBeside(session.top50, run_date)
             /\ session'.results = session.results
             /\ templates' = templates
             /\ db' = db
       /\ (pc = "commit" /\ pc' = "idle") =>
             /\ SnapshotsBeside(db'.top50, run_date) = SnapshotsBeside(db.top50, run_date)
             /\ db'.results = db.results
             /\ templates' = templates]_vars

\* C27 witness: a run persisted the results of two patterns and inserted
\* the snapshot of its date while the store held the results and the
\* snapshot of another date.
C27_Witness ==
    /\ pc = "commit"
    /\ Len(top) > 0
    /\ Cardinality(evaluated) = 2
    /\ \A p \in evaluated : StoredResults(session.results, run_date, p) # {}
    /\ \E r \in session.results : r.run_date # run_date
    /\ SnapshotsBeside(session.top50, run_date) # {}

(***************************************************************************)
(* Specification of the spacing applied twice: by generate_top50 before    *)
(* the snapshot is stored and by the /top50 endpoint on the snapshot it    *)
(* fetched.  The scores of this specification are in units of 1e-7, the    *)
(* resolution of its floats; the score column is Numeric(14, 6).           *)
(***************************************************************************)
MaxRespaceLen == 3

\* db/models.py: one step of a Numeric(14, 6) column, in units of 1e-7
NumericStep == 10

\* the value a Numeric(14, 6) column holds for the score x >= 0 written to it
StoredScore(x) == ((x + (NumericStep \div 2)) \div NumericStep) * NumericStep

\* engine.py 137-138 and queries.py fetch_top50_for_date: the rows of the
\* snapshot as they are read back, in rank order
fetch_top50_for_date(entries) ==
    [i \in 1..Len(entries) |-> [entries[i] EXCEPT !.score = StoredScore(entries[i].score)]]

\* scores of unicorn_results rows: multiples of the column's step
RespaceScores == {-10, 0, 10, 1000000, 1000010, 2000000}

\* the candidates reach the spacing in ORDER BY score DESC
RespaceList(f) == [i \in 1..Len(f) |-> [entity_id |-> i, score |-> f[i]]]

RespaceInit ==
    /\ \E n \in 0..MaxRespaceLen : \E f \in [1..n -> RespaceScores] :
          /\ \A i \in 1..(n - 1) : f[i] >= f[i + 1]
          /\ spacing_in = RespaceList(f)
    /\ spacing_out = <<>>
    /\ spacing_pc = "called"
    /\ SelIdle
    /\ ScoreIdle
    /\ RenderIdle
    /\ FilterIdle
    /\ RunIdle

\* the spaced list is stored and the endpoint fetches it
StoreAndFetch ==
    /\ spacing_pc = "returned"
    /\ spacing_in' = fetch_top50_for_date(spacing_out)
    /\ spacing_out' = <<>>
    /\ spacing_pc' = "fetched"
    /\ UNCHANGED <<selVars, callVars, runVars>>

\* api/main.py get_top50 lines 276-277
get_top50 ==
    /\ spacing_pc = "fetched"
    /\ spacing_out' = apply_min_score_spacing(spacing_in)
    /\ spacing_pc' = "served"
    /\ UNCHANGED <<selVars, spacing_in, callVars, runVars>>

RespaceNext ==
    \/ SpacingCall
    \/ StoreAndFetch
    \/ get_top50

SpecRespace == RespaceInit /\ [][RespaceNext]_vars

\* C28: the spacing re-applied by the /top50 endpoint to the stored snapshot,
\* which generate_top50 had spaced, changes no score.
C28_Idempotent ==
    spacing_pc = "served" =>
        \A i \in 1..Len(spacing_in) : spacing_out[i].score = spacing_in[i].score

(***************************************************************************)
(* sql_builder.py build_query with a last_n_days window, and the rows its  *)
(* statement aggregates.  A fact is a row of the base table joined to its  *)
(* game: its game date, and whether it satisfies the clauses that          *)
(* build_filter_clause returned.  The call is kept in `filter`.            *)
(***************************************************************************)
MaxFacts == 2

AsOfDates == {5, 6}

GameDates == 1..7

\* int(x): ok is FALSE where int raises TypeError or ValueError
IntOf(j) ==
    CASE j.t = "num" -> [ok |-> TRUE, v |-> j.n]
      [] j.t = "str" /\ j.s = "2" -> [ok |-> TRUE, v |-> 2]
      [] OTHER -> [ok |-> FALSE, v |-> 0]

\* lines 116-120: int(window.get("n") or 7), 7 on an exception, at least 1
DaysWindowN(window) ==
    LET given == JGet(window, "n")
        parsed == IntOf(IF Falsy(given) THEN JNum(7) ELSE given)
        window_n == IF parsed.ok THEN parsed.v ELSE 7
    IN  IF window_n > 1 THEN window_n ELSE 1

\* line 115
LastNDays(pattern) == WindowOf(pattern).t = "dict" /\ WindowType(pattern) = "last_n_days"

\* mutant: the window starts n days before the as-of date
window_start_date_NDaysBefore(pattern, as_of_date) ==
    as_of_date - DaysWindowN(WindowOf(pattern))

\* line 121: params["window_start_date"]
window_start_date(pattern, as_of_date) ==
    as_of_date - (DaysWindowN(WindowOf(pattern)) - 1)

\* lines 142-143: WHERE games.game_date <= :as_of_date{where_sql}
InWhere(pattern, as_of_date, fact) ==
    /\ fact.game_date <= as_of_date
    /\ build_filter_clause(pattern.filters_json).clauses = <<>> \/ fact.matches
    /\ LastNDays(pattern) => fact.game_date >= window_start_date(pattern, as_of_date)

\* lines 136-145: GROUP BY the entity, HAVING COUNT(*) >= :min_sample
QueryResult(pattern, as_of_date, facts) ==
    LET Group(e) == {i \in 1..Len(facts) :
                        facts[i].entity_id = e /\ InWhere(pattern, as_of_date, facts[i])}
    IN  {[entity_id |-> e, sample_size |-> Cardinality(Group(e))] :
            e \in {x \in {facts[i].entity_id : i \in 1..Len(facts)} :
                      Group(x) # {} /\ Cardinality(Group(x)) >= pattern.min_sample}}

DaysWindowNs == {JNull, JNum(-1), JNum(0), JNum(1), JNum(2), JNum(3), JStr("2"), JStr("soon")}

DaysConditions == {<<>>, <<Cond("pitch_type", JStr("="), JStr("FF"))>>}

DaysTemplate(conditions, window) ==
    [BaseTemplate EXCEPT
        !.min_sample = 1,
        !.filters_json = JDict(<<KV("conditions", JList(conditions)), KV("window", window)>>)]

DaysWindows ==
    {JNull} \cup
    {JDict(<<KV("type", JStr("last_n_days")), KV("n", n)>>) : n \in DaysWindowNs}

Fact(i, game_date, matches) ==
    [pa_id |-> i, entity_id |-> 1, game_date |-> game_date, matches |-> matches]

DaysInit ==
    /\ \E conditions \in DaysConditions, window \in DaysWindows, d \in AsOfDates :
          \E n \in 0..MaxFacts : \E f \in [1..n -> GameDates \X BOOLEAN] :
              filter = [pc |-> "called", pattern |-> DaysTemplate(conditions, window),
                        as_of_date |-> d,
                        facts |-> [i \in 1..n |-> Fact(i, f[i][1], f[i][2])],
                        result |-> {}]
    /\ ScoreIdle
    /\ RenderIdle
    /\ SelIdle
    /\ SpacingIdle
    /\ RunIdle

\* engine.py evaluate_pattern lines 206-207: build_query and session.execute
QueryRun ==
    /\ filter.pc = "called"
    /\ filter' = [filter EXCEPT
                     !.pc = "returned",
                     !.result = QueryResult(filter.pattern, filter.as_of_date, filter.facts)]
    /\ UNCHANGED <<render, scoreVars, selVars, spacingVars, runVars>>

DaysNext == QueryRun

SpecDays == DaysInit /\ [][DaysNext]_vars

\* the n of the pattern's window, when it is a number
GivenN(pattern) == JGet(WindowOf(pattern), "n")

\* the facts dated within the n days that end at the as-of date and
\* satisfying the pattern's conditions
FactsInWindow(n) ==
    {i \in 1..Len(filter.facts) :
        /\ filter.as_of_date - (n - 1) <= filter.facts[i].game_date
        /\ filter.facts[i].game_date <= filter.as_of_date
        /\ ConditionsOf(filter.pattern.filters_json) = <<>> \/ filter.facts[i].matches}

\* C29: with a last_n_days window of n >= 1 and the as-of date D, the rows
\* aggregated are exactly the rows dated in [D-(n-1), D] (that satisfy the
\* pattern's conditions); no row dated after D or before D-(n-1) counts.
C29_LastNDaysWindow ==
    (/\ filter.pc = "returned"
     /\ LastNDays(filter.pattern)
     /\ GivenN(filter.pattern).t = "num"
     /\ GivenN(filter.pattern).n >= 1) =>
        \A k \in {Cardinality(FactsInWindow(GivenN(filter.pattern).n))} :
            filter.result = IF k >= 1 THEN {[entity_id |-> 1, sample_size |-> k]} ELSE {}

\* C29 witness: n = 2; of two rows that satisfy the conditions, the one dated
\* D-1 was counted and the one dated D-2 was not.
C29_Witness ==
    /\ filter.pc = "returned"
    /\ LastNDays(filter.pattern)
    /\ GivenN(filter.pattern) = JNum(2)
    /\ Len(filter.facts) = 2
    /\ {filter.facts[i].game_date : i \in 1..2}
          = {filter.as_of_date - 1, filter.as_of_date - 2}
    /\ \A i \in 1..2 : filter.facts[i].matches
    /\ filter.result = {[entity_id |-> 1, sample_size |-> 1]}

(***************************************************************************)
(* Specification of run_for_date over patterns that filter on the count:   *)
(* each pattern is the template without conditions or one with a count_str *)
(* condition, written as the seeds write it ({field, op, value}) or as a   *)
(* count_str key, with an allowed or another count.                        *)
(***************************************************************************)
MaxCountRuns == 1

COUNT_STRINGS == {"3-0", "0-2", "3-2", "1-1", "2-2"}

\* seed_patterns.py lines 177-180
CountFieldTemplate(count) ==
    [BaseTemplate EXCEPT !.filters_json =
        JDict(<<KV("conditions",
                   JList(<<Cond("is_hr", JStr("="), JNum(1)),
                           Cond("count_str", JStr("="), JStr(count))>>))>>)]

CountKeyTemplate(count) ==
    [BaseTemplate EXCEPT !.filters_json =
        JDict(<<KV("conditions", JList(<<JDict(<<KV("count_str", JStr(count))>>)>>))>>)]

CountCatalogue ==
    {BaseTemplate}
    \cup {CountFieldTemplate(c) : c \in COUNT_STRINGS}
    \cup {CountKeyTemplate(c) : c \in COUNT_STRINGS}

CountInit ==
    /\ templates \in [PipelinePatterns -> CountCatalogue]
    /\ RunNotStarted
    /\ SelIdle
    /\ SpacingIdle
    /\ ScoreIdle
    /\ RenderIdle
    /\ FilterIdle

CountNext ==
    \/ RunStart(RunDates, MaxCountRuns)
    \/ SkipInvalid
    \/ Evaluate([p \in PipelinePatterns, d \in RunDates |-> QueryAnswers])
    \/ CommitResults
    \/ GenerateTop50
    \/ InsertTop50
    \/ CommitTop50

SpecCount == CountInit /\ [][CountNext]_vars

\* the pattern has a condition on the field count_str whose value is a
\* string outside the allowed counts
DisallowedCountCondition(pattern) ==
    \E i \in 1..Len(ConditionsOf(pattern.filters_json)) :
        \E c \in {ConditionsOf(pattern.filters_json)[i]} :
            /\ JGet(c, "field") = JStr("count_str")
            /\ JGet(c, "value").t = "str"
            /\ JGet(c, "value").s \notin ALLOWED_COUNTS

\* C30: a pattern with a {field, op, value} condition on count_str whose
\* value is a string outside {3-0, 0-2, 3-2} is rejected by validate_pattern:
\* it is skipped, never evaluated.
C30_DisallowedCountRejected ==
    \A p \in evaluated : ~DisallowedCountCondition(templates[p])

====
